---------------------------- MODULE Spec2Model ----------------------------
(***************************************************************************)
(* A model of hive-asar: the asar archive writer (src/src/writer.rs), the  *)
(* archive reader and its File sub-stream (src/src/archive.rs), the header *)
(* tree (src/src/header.rs), split_path (src/src/lib.rs) and extraction    *)
(* to a directory (src/src/extract.rs).                                    *)
(*                                                                         *)
(* Bytes are naturals 0..255; strings (paths, names, JSON text) are        *)
(* sequences of ASCII codes.  u64/i64 arithmetic is kept at a reduced      *)
(* width of WordBits bits where the code's casts depend on the width.      *)
(***************************************************************************)
EXTENDS Integers, Sequences, FiniteSets, TLC

VARIABLES
  header,       \* Writer.header: the Directory being built
  file_offset,  \* Writer.file_offset
  files,        \* Writer.files: Vec<Take<F>>
  calls,        \* history: the arguments of the add calls that returned
  dest,         \* the bytes Writer::write emitted
  phase,        \* "building" | "panicked" | "written" | "opened" | "failed"
                \* | "extracting" | "extracted"
  archive,      \* Archive.offset and Archive.header
  image,        \* the bytes behind Archive.reader and its duplicates
  cursors,      \* cursors[1]: Archive.reader's cursor; the others: duplicates
  streams,      \* the File sub-streams alive
  last,         \* the last operation and what it returned
  disk,         \* the directory tree under the path handed to extract
  walk          \* extract's walk: the directories entered, the steps taken

vars == <<header, file_offset, files, calls, dest, phase, archive, image,
          cursors, streams, last, disk, walk>>

-----------------------------------------------------------------------------
(* Bounds of the model *)

\* add calls per writer
MaxAdds == 2
\* longest content handed to add; declared sizes range over 0..MaxLen+1
MaxLen == 2
\* duplicates (read_owned sub-streams) alive at once
MaxOwned == 2
\* largest magnitude of an ordinary seek argument
MaxSeek == 3
\* largest buffer handed to poll_read
MaxBuf == 2
\* longest content handed to add_sized and add_sized_with_integrity
MaxSrc == 3
\* bytes per integrity block: lib.rs has 4_194_304, the model a block
\* that the contents above fill, and overflow
BLOCK_SIZE == 2
\* bytes a ReaderStream hands out in one chunk
ChunkCap == 1
\* longest string handed to split_path, beside the longer examples
MaxPath == 5
\* width of the model's u64/i64 words
WordBits == 8

-----------------------------------------------------------------------------
(* Words *)

U64Modulus == 2 ^ WordBits
I64Min == -(2 ^ (WordBits - 1))
I64Max == 2 ^ (WordBits - 1) - 1

Min(a, b) == IF a <= b THEN a ELSE b

\* `x as u64` of an i64 x
AsU64(x) == IF x < 0 THEN x + U64Modulus ELSE x

\* `x as i64` of a u64 x
AsI64(x) == IF x > I64Max THEN x - U64Modulus ELSE x

\* `-pos` of an i64 where the build wraps (overflow checks off)
WrappingNeg(pos) == IF pos = I64Min THEN I64Min ELSE -pos

Zeros(n) == [i \in 1..n |-> 0]

\* u32::to_le_bytes / write_u32_le
U32LE(n) == << n % 256, (n \div 256) % 256, (n \div 65536) % 256,
               (n \div 16777216) % 256 >>

\* read_u32_le of the four bytes at 0-based offset at
ReadU32LE(bytes, at) ==
  bytes[at + 1] + 256 * bytes[at + 2] + 65536 * bytes[at + 3]
    + 16777216 * bytes[at + 4]

RECURSIVE Concat(_)
Concat(seqs) == IF seqs = <<>> THEN <<>> ELSE Head(seqs) \o Concat(Tail(seqs))

-----------------------------------------------------------------------------
(* src/src/lib.rs: split_path *)

Slash == 47
Dot == 46

\* path.split('/'): the tokens between separators, empty ones included
RECURSIVE Split(_, _, _)
Split(path, cur, acc) ==
  IF path = <<>> THEN Append(acc, cur)
  ELSE IF Head(path) = Slash THEN Split(Tail(path), <<>>, Append(acc, cur))
  ELSE Split(Tail(path), Append(cur, Head(path)), acc)

\* the fold of lines 42-49: ".." pops (a pop of an empty Vec does nothing)
RECURSIVE FoldSegments(_, _)
FoldSegments(tokens, result) ==
  IF tokens = <<>> THEN result
  ELSE IF Head(tokens) = <<Dot, Dot>>
    THEN FoldSegments(Tail(tokens),
           IF result = <<>> THEN <<>> ELSE SubSeq(result, 1, Len(result) - 1))
    ELSE FoldSegments(Tail(tokens), Append(result, Head(tokens)))

\* split_path with the filter of line 41 forgotten
split_path_unfiltered(path) == FoldSegments(Split(path, <<>>, <<>>), <<>>)

split_path(path) ==
  FoldSegments(
    SelectSeq(Split(path, <<>>, <<>>), LAMBDA x : x # <<>> /\ x # <<Dot>>),
    <<>>)

-----------------------------------------------------------------------------
(* src/src/header.rs: the header tree *)

\* Directory::default()
EmptyDirectory == [files |-> <<>>]

OffsetPos(x) == [tag |-> "Offset", x |-> x]
UnpackedPos == [tag |-> "Unpacked", x |-> 0]

\* Option<Integrity>: <<>> is None, <<i>> is Some(i)
FileMetadata(pos, size, executable, integrity) ==
  [pos |-> pos, size |-> size, executable |-> executable, integrity |-> integrity]

FileEntry(metadata) == [kind |-> "File", metadata |-> metadata, dir |-> EmptyDirectory]
DirectoryEntry(dir) ==
  [kind |-> "Directory", metadata |-> FileMetadata(UnpackedPos, 0, FALSE, <<>>),
   dir |-> dir]

\* Integrity { algorithm: SHA256, hash, block_size, blocks }
Integrity(hash, block_size, blocks) ==
  [algorithm |-> "SHA256", hash |-> hash, block_size |-> block_size,
   blocks |-> blocks]

\* Sha256 as an ideal hash: the digest of a message is a byte string that
\* no other message has.  The running state holds what update was given,
\* so that finalize gives the digest of the concatenation.
digest(msg) == <<Len(msg)>> \o msg
Sha256New == <<>>
update(state, block) == state \o block
finalize(state) == digest(state)

\* FileMetadata::offset: Ok(x) for Offset(x), the "unpacked" error otherwise
offset(metadata) ==
  IF metadata.pos.tag = "Offset"
    THEN [ok |-> TRUE, x |-> metadata.pos.x]
    ELSE [ok |-> FALSE, x |-> 0]

\* Entry::search_segments and Directory::search_segments.  The result is
\* <<>> for None, <<e>> for Some(e); Directory::search_segments indexes
\* segments[0], which panics on an empty slice.
RECURSIVE entry_search_segments(_, _)
RECURSIVE directory_search_segments(_, _)
entry_search_segments(entry, segments) ==
  IF segments = <<>> THEN [panic |-> FALSE, found |-> <<entry>>]
  ELSE IF entry.kind = "File" THEN [panic |-> FALSE, found |-> <<>>]
  ELSE directory_search_segments(entry.dir, segments)

directory_search_segments(dir, segments) ==
  IF segments = <<>> THEN [panic |-> TRUE, found |-> <<>>]
  ELSE IF Head(segments) \in DOMAIN dir.files
    THEN entry_search_segments(dir.files[Head(segments)], Tail(segments))
    ELSE [panic |-> FALSE, found |-> <<>>]

-----------------------------------------------------------------------------
(* The JSON text of the header: serde_json::to_vec / from_slice with the    *)
(* derives and the hand-written FilePosition codec of src/src/header.rs.    *)
(* Names need no escaping over the alphabet the model uses.                 *)

KeyFiles == <<102, 105, 108, 101, 115>>                               \* files
KeyOffset == <<111, 102, 102, 115, 101, 116>>                         \* offset
KeyUnpacked == <<117, 110, 112, 97, 99, 107, 101, 100>>               \* unpacked
KeySize == <<115, 105, 122, 101>>                                     \* size
KeyExecutable == <<101, 120, 101, 99, 117, 116, 97, 98, 108, 101>>    \* executable
KeyIntegrity == <<105, 110, 116, 101, 103, 114, 105, 116, 121>>       \* integrity
LitTrue == <<116, 114, 117, 101>>                                     \* true
LitFalse == <<102, 97, 108, 115, 101>>                                \* false
LitNull == <<110, 117, 108, 108>>                                     \* null
KeyAlgorithm == <<97, 108, 103, 111, 114, 105, 116, 104, 109>>        \* algorithm
KeyHash == <<104, 97, 115, 104>>                                      \* hash
KeyBlockSize == <<98, 108, 111, 99, 107, 83, 105, 122, 101>>          \* blockSize
KeyBlocks == <<98, 108, 111, 99, 107, 115>>                           \* blocks
NameSHA256 == <<83, 72, 65, 50, 53, 54>>                              \* SHA256

\* "s"
Quoted(s) == <<34>> \o s \o <<34>>
\* "key":
Key(k) == Quoted(k) \o <<58>>

\* u64::to_string, and serde_json's rendering of a u64
RECURSIVE to_string(_)
to_string(n) ==
  IF n < 10 THEN <<48 + n>> ELSE to_string(n \div 10) \o <<48 + (n % 10)>>

\* impl Serialize for FilePosition (through Helper, flattened)
ser_file_position(pos) ==
  IF pos.tag = "Offset"
    THEN Key(KeyOffset) \o Quoted(to_string(pos.x))
    ELSE Key(KeyUnpacked) \o LitTrue

\* hex::serde of a Hash: two lower-case digits a byte
HexDigit(n) == IF n < 10 THEN 48 + n ELSE 87 + n
RECURSIVE hex_encode(_)
hex_encode(bytes) ==
  IF bytes = <<>> THEN <<>>
  ELSE <<HexDigit(Head(bytes) \div 16), HexDigit(Head(bytes) % 16)>>
         \o hex_encode(Tail(bytes))

\* Vec<Hash>
RECURSIVE ser_hashes(_)
ser_hashes(blocks) ==
  IF blocks = <<>> THEN <<>>
  ELSE Quoted(hex_encode(Head(blocks)))
         \o (IF Tail(blocks) = <<>> THEN <<>> ELSE <<44>> \o ser_hashes(Tail(blocks)))

\* Option<Integrity>: null, or derive(Serialize) for Integrity
ser_integrity(integrity) ==
  IF integrity = <<>> THEN LitNull
  ELSE <<123>> \o Key(KeyAlgorithm) \o Quoted(NameSHA256)
         \o <<44>> \o Key(KeyHash) \o Quoted(hex_encode(integrity[1].hash))
         \o <<44>> \o Key(KeyBlockSize) \o to_string(integrity[1].block_size)
         \o <<44>> \o Key(KeyBlocks) \o <<91>> \o ser_hashes(integrity[1].blocks)
         \o <<93, 125>>

\* derive(Serialize) for FileMetadata: pos flattened, then size, executable
\* (skipped when bool::clone gives true), integrity
ser_file_metadata(m) ==
  <<123>> \o ser_file_position(m.pos)
    \o <<44>> \o Key(KeySize) \o to_string(m.size)
    \o (IF m.executable THEN <<>> ELSE <<44>> \o Key(KeyExecutable) \o LitFalse)
    \o <<44>> \o Key(KeyIntegrity) \o ser_integrity(m.integrity)
    \o <<125>>

\* derive(Serialize) for Directory and the untagged Entry.  A HashMap is
\* walked in an order of its own: here the order CHOOSE fixes.
RECURSIVE ser_directory(_)
RECURSIVE ser_members(_, _)
ser_entry(entry) ==
  IF entry.kind = "File" THEN ser_file_metadata(entry.metadata)
  ELSE ser_directory(entry.dir)

ser_members(fs, keys) ==
  IF keys = {} THEN <<>>
  ELSE LET k == CHOOSE x \in keys : TRUE
           rest == keys \ {k}
       IN Key(k) \o ser_entry(fs[k])
            \o (IF rest = {} THEN <<>> ELSE <<44>> \o ser_members(fs, rest))

ser_directory(dir) ==
  <<123>> \o Key(KeyFiles) \o <<123>> \o ser_members(dir.files, DOMAIN dir.files)
    \o <<125, 125>>

\* serde_json::to_vec(&self.header)
to_vec(dir) == ser_directory(dir)

\* A parsed JSON value
JValue(t, s, n, m) == [t |-> t, s |-> s, n |-> n, m |-> m]
JNull == JValue("null", <<>>, 0, <<>>)
ParseFail == [ok |-> FALSE, v |-> JNull, i |-> 0]
ParseOk(v, i) == [ok |-> TRUE, v |-> v, i |-> i]

ByteAt(s, i) == IF i >= 1 /\ i <= Len(s) THEN s[i] ELSE 0
StartsWith(s, i, lit) ==
  i + Len(lit) - 1 <= Len(s) /\ SubSeq(s, i, i + Len(lit) - 1) = lit
IsDigit(c) == c >= 48 /\ c <= 57

\* the index of the quote closing a string whose text starts at i; 0 if none
RECURSIVE ClosingQuote(_, _)
ClosingQuote(s, i) ==
  IF i > Len(s) THEN 0
  ELSE IF s[i] = 34 THEN i
  ELSE ClosingQuote(s, i + 1)

parse_string(s, i) ==
  IF ByteAt(s, i) # 34 THEN ParseFail
  ELSE LET j == ClosingQuote(s, i + 1)
       IN IF j = 0 THEN ParseFail
          ELSE ParseOk(JValue("str", SubSeq(s, i + 1, j - 1), 0, <<>>), j + 1)

RECURSIVE parse_digits(_, _, _)
parse_digits(s, i, acc) ==
  IF IsDigit(ByteAt(s, i)) THEN parse_digits(s, i + 1, 10 * acc + (s[i] - 48))
  ELSE ParseOk(JValue("num", <<>>, acc, <<>>), i)

RECURSIVE parse_value(_, _)
RECURSIVE parse_members(_, _, _)
RECURSIVE parse_elements(_, _, _)
parse_members(s, i, m) ==
  LET k == parse_string(s, i)
  IN IF ~k.ok \/ ByteAt(s, k.i) # 58 THEN ParseFail
     ELSE LET v == parse_value(s, k.i + 1)
          IN IF ~v.ok THEN ParseFail
             ELSE LET m2 == (k.v.s :> v.v) @@ m
                  IN IF ByteAt(s, v.i) = 44 THEN parse_members(s, v.i + 1, m2)
                     ELSE IF ByteAt(s, v.i) = 125
                       THEN ParseOk(JValue("obj", <<>>, 0, m2), v.i + 1)
                       ELSE ParseFail

parse_elements(s, i, m) ==
  LET v == parse_value(s, i)
  IN IF ~v.ok THEN ParseFail
     ELSE IF ByteAt(s, v.i) = 44 THEN parse_elements(s, v.i + 1, Append(m, v.v))
     ELSE IF ByteAt(s, v.i) = 93
       THEN ParseOk(JValue("arr", <<>>, 0, Append(m, v.v)), v.i + 1)
     ELSE ParseFail

parse_value(s, i) ==
  LET c == ByteAt(s, i)
  IN IF c = 123
       THEN IF ByteAt(s, i + 1) = 125
              THEN ParseOk(JValue("obj", <<>>, 0, <<>>), i + 2)
              ELSE parse_members(s, i + 1, <<>>)
     ELSE IF c = 91
       THEN IF ByteAt(s, i + 1) = 93
              THEN ParseOk(JValue("arr", <<>>, 0, <<>>), i + 2)
              ELSE parse_elements(s, i + 1, <<>>)
     ELSE IF c = 34 THEN parse_string(s, i)
     ELSE IF IsDigit(c) THEN parse_digits(s, i, 0)
     ELSE IF StartsWith(s, i, LitTrue)
       THEN ParseOk(JValue("true", <<>>, 0, <<>>), i + Len(LitTrue))
     ELSE IF StartsWith(s, i, LitFalse)
       THEN ParseOk(JValue("false", <<>>, 0, <<>>), i + Len(LitFalse))
     ELSE IF StartsWith(s, i, LitNull) THEN ParseOk(JNull, i + Len(LitNull))
     ELSE ParseFail

Has(v, k) == v.t = "obj" /\ k \in DOMAIN v.m
IsBool(v) == v.t \in {"true", "false"}

\* str::parse::<u64> of the offset string
RECURSIVE parse_u64(_, _)
parse_u64(s, acc) ==
  IF s = <<>> THEN [ok |-> TRUE, x |-> acc]
  ELSE IF IsDigit(Head(s)) THEN parse_u64(Tail(s), 10 * acc + (Head(s) - 48))
  ELSE [ok |-> FALSE, x |-> 0]

\* impl Deserialize for FilePosition: the untagged Helper, then lines 115-127
de_file_position(v) ==
  LET asOffset == Has(v, KeyOffset) /\ v.m[KeyOffset].t = "str"
                    /\ (Has(v, KeyUnpacked)
                          => (IsBool(v.m[KeyUnpacked]) \/ v.m[KeyUnpacked].t = "null"))
      asUnpacked == Has(v, KeyUnpacked) /\ IsBool(v.m[KeyUnpacked])
  IN IF asOffset
       THEN IF Has(v, KeyUnpacked) /\ v.m[KeyUnpacked].t = "true"
              THEN [ok |-> FALSE, pos |-> UnpackedPos]
              ELSE LET x == parse_u64(v.m[KeyOffset].s, 0)
                   IN IF x.ok /\ v.m[KeyOffset].s # <<>>
                        THEN [ok |-> TRUE, pos |-> OffsetPos(x.x)]
                        ELSE [ok |-> FALSE, pos |-> UnpackedPos]
     ELSE IF asUnpacked /\ v.m[KeyUnpacked].t = "true"
       THEN [ok |-> TRUE, pos |-> UnpackedPos]
     ELSE [ok |-> FALSE, pos |-> UnpackedPos]

\* hex::serde of a Hash: digits of either case, two a byte
HexValue(c) ==
  IF c >= 48 /\ c <= 57 THEN c - 48
  ELSE IF c >= 97 /\ c <= 102 THEN c - 87
  ELSE IF c >= 65 /\ c <= 70 THEN c - 55
  ELSE -1

RECURSIVE hex_decode(_)
hex_decode(str) ==
  IF str = <<>> THEN [ok |-> TRUE, bytes |-> <<>>]
  ELSE IF Len(str) = 1 \/ HexValue(str[1]) < 0 \/ HexValue(str[2]) < 0
    THEN [ok |-> FALSE, bytes |-> <<>>]
  ELSE LET rest == hex_decode(SubSeq(str, 3, Len(str)))
       IN [ok |-> rest.ok,
           bytes |-> IF rest.ok
                       THEN <<16 * HexValue(str[1]) + HexValue(str[2])>> \o rest.bytes
                       ELSE <<>>]

\* derive(Deserialize) for Integrity: all four fields are required
de_integrity(v) ==
  LET okShape == /\ Has(v, KeyAlgorithm) /\ v.m[KeyAlgorithm].t = "str"
                 /\ v.m[KeyAlgorithm].s = NameSHA256
                 /\ Has(v, KeyHash) /\ v.m[KeyHash].t = "str"
                 /\ hex_decode(v.m[KeyHash].s).ok
                 /\ Has(v, KeyBlockSize) /\ v.m[KeyBlockSize].t = "num"
                 /\ Has(v, KeyBlocks) /\ v.m[KeyBlocks].t = "arr"
                 /\ \A j \in 1..Len(v.m[KeyBlocks].m) :
                      /\ v.m[KeyBlocks].m[j].t = "str"
                      /\ hex_decode(v.m[KeyBlocks].m[j].s).ok
  IN IF okShape
       THEN [ok |-> TRUE,
             integrity |->
               <<Integrity(hex_decode(v.m[KeyHash].s).bytes, v.m[KeyBlockSize].n,
                           [j \in 1..Len(v.m[KeyBlocks].m) |->
                              hex_decode(v.m[KeyBlocks].m[j].s).bytes])>>]
       ELSE [ok |-> FALSE, integrity |-> <<>>]

\* derive(Deserialize) for FileMetadata: size is required, executable
\* defaults to false, integrity (absent or null) to None
de_file_metadata(v) ==
  LET pos == de_file_position(v)
      okSize == Has(v, KeySize) /\ v.m[KeySize].t = "num"
      okExec == Has(v, KeyExecutable) => IsBool(v.m[KeyExecutable])
      noInt == ~Has(v, KeyIntegrity) \/ v.m[KeyIntegrity].t = "null"
      int == IF noInt THEN [ok |-> TRUE, integrity |-> <<>>]
             ELSE de_integrity(v.m[KeyIntegrity])
  IN IF v.t = "obj" /\ pos.ok /\ okSize /\ okExec /\ int.ok
       THEN [ok |-> TRUE,
             metadata |-> FileMetadata(pos.pos, v.m[KeySize].n,
                            Has(v, KeyExecutable) /\ v.m[KeyExecutable].t = "true",
                            int.integrity)]
       ELSE [ok |-> FALSE, metadata |-> FileMetadata(UnpackedPos, 0, FALSE, <<>>)]

\* derive(Deserialize) for Directory and for the untagged Entry (File is
\* tried first, then Directory)
RECURSIVE de_directory(_)
de_entry(v) ==
  LET f == de_file_metadata(v)
      d == de_directory(v)
  IN IF f.ok THEN [ok |-> TRUE, entry |-> FileEntry(f.metadata)]
     ELSE IF d.ok THEN [ok |-> TRUE, entry |-> DirectoryEntry(d.dir)]
     ELSE [ok |-> FALSE, entry |-> DirectoryEntry(EmptyDirectory)]

de_directory(v) ==
  IF ~(Has(v, KeyFiles) /\ v.m[KeyFiles].t = "obj")
    THEN [ok |-> FALSE, dir |-> EmptyDirectory]
    ELSE LET kids == v.m[KeyFiles].m
             parsed == [k \in DOMAIN kids |-> de_entry(kids[k])]
         IN IF \A k \in DOMAIN kids : parsed[k].ok
              THEN [ok |-> TRUE, dir |-> [files |-> [k \in DOMAIN kids |-> parsed[k].entry]]]
              ELSE [ok |-> FALSE, dir |-> EmptyDirectory]

\* serde_json::from_slice::<Directory>: one value, nothing after it
from_slice(bytes) ==
  LET p == parse_value(bytes, 1)
  IN IF p.ok /\ p.i = Len(bytes) + 1 THEN de_directory(p.v)
     ELSE [ok |-> FALSE, dir |-> EmptyDirectory]

-----------------------------------------------------------------------------
(* src/src/writer.rs: Writer *)

\* a reader F over data, its cursor at pos
Reader(data, pos) == [data |-> data, pos |-> pos]

\* AsyncReadExt::take: Take<F> with its limit_
take(inner, limit) == [inner |-> inner, limit_ |-> limit]

\* The writer as one value
Writer(h, o, f) == [header |-> h, file_offset |-> o, files |-> f]

\* add_folder_recursively and insert that replace what is in the way
RECURSIVE add_folder_recursively_overwriting(_, _, _)
add_folder_recursively_overwriting(dir, segments, leaf) ==
  IF segments = <<>>
    THEN IF leaf = <<>> THEN [ok |-> TRUE, dir |-> dir]
         ELSE [ok |-> TRUE,
               dir |-> [files |-> (leaf[1].name :> leaf[1].entry) @@ dir.files]]
    ELSE LET seg == Head(segments)
             entry == IF seg \in DOMAIN dir.files /\ dir.files[seg].kind = "Directory"
                        THEN dir.files[seg]
                        ELSE DirectoryEntry(EmptyDirectory)
             sub == add_folder_recursively_overwriting(entry.dir, Tail(segments), leaf)
         IN [ok |-> sub.ok,
             dir |-> [files |-> (seg :> DirectoryEntry(sub.dir)) @@ dir.files]]

\* Writer::add_folder_recursively (lines 45-57) and, at the Directory it
\* returns, the caller's insert (lines 95-99): leaf is <<>> for no insert
\* (add_empty_folder) or <<[name, entry]>>.  ok is FALSE where the code
\* panics: unreachable!() on a File in the way, or the assert on an
\* occupied name (after the insert has replaced it).
RECURSIVE add_folder_recursively(_, _, _)
add_folder_recursively(dir, segments, leaf) ==
  IF segments = <<>>
    THEN IF leaf = <<>> THEN [ok |-> TRUE, dir |-> dir]
         ELSE [ok |-> leaf[1].name \notin DOMAIN dir.files,
               dir |-> [files |-> (leaf[1].name :> leaf[1].entry) @@ dir.files]]
    ELSE LET seg == Head(segments)
             entry == IF seg \in DOMAIN dir.files THEN dir.files[seg]
                      ELSE DirectoryEntry(EmptyDirectory)
         IN IF entry.kind # "Directory" THEN [ok |-> FALSE, dir |-> dir]
            ELSE LET sub == add_folder_recursively(entry.dir, Tail(segments), leaf)
                 IN [ok |-> sub.ok,
                     dir |-> [files |-> (seg :> DirectoryEntry(sub.dir)) @@ dir.files]]

\* add_with_options with `self.file_offset += size` forgotten
add_with_options_stale_offset(w, path, content, size, executable, integrity) ==
  LET segments == split_path(path)
  IN IF segments = <<>> THEN [ok |-> FALSE, w |-> w]
     ELSE LET filename == segments[Len(segments)]
              file_entry == FileMetadata(OffsetPos(w.file_offset), size,
                                         executable, integrity)
              r == add_folder_recursively(w.header,
                     SubSeq(segments, 1, Len(segments) - 1),
                     <<[name |-> filename, entry |-> FileEntry(file_entry)]>>)
          IN IF r.ok
               THEN [ok |-> TRUE,
                     w |-> Writer(r.dir, w.file_offset,
                                  Append(w.files, take(content, size)))]
               ELSE [ok |-> FALSE, w |-> [w EXCEPT !.header = r.dir]]

\* Writer::add_with_options
add_with_options(w, path, content, size, executable, integrity) ==
  LET segments == split_path(path)
  IN IF segments = <<>> THEN [ok |-> FALSE, w |-> w]
     ELSE LET filename == segments[Len(segments)]
              file_entry == FileMetadata(OffsetPos(w.file_offset), size,
                                         executable, integrity)
              r == add_folder_recursively(w.header,
                     SubSeq(segments, 1, Len(segments) - 1),
                     <<[name |-> filename, entry |-> FileEntry(file_entry)]>>)
          IN IF r.ok
               THEN [ok |-> TRUE,
                     w |-> Writer(r.dir, w.file_offset + size,
                                  Append(w.files, take(content, size)))]
               ELSE [ok |-> FALSE, w |-> [w EXCEPT !.header = r.dir]]

\* Writer::add
add(w, path, content, size) == add_with_options(w, path, content, size, FALSE, <<>>)

\* Writer::add_empty_folder
add_empty_folder(w, path) ==
  LET r == add_folder_recursively(w.header, split_path(path), <<>>)
  IN [ok |-> r.ok, w |-> [w EXCEPT !.header = r.dir]]

\* content.seek(SeekFrom::End(0)) on a Cursor: the cursor goes to the end,
\* which is the position returned
seek_end(content) ==
  [reader |-> Reader(content.data, Len(content.data)), ret |-> Len(content.data)]

\* content.stream_position(): seek(SeekFrom::Current(0))
stream_position(content) == [reader |-> content, ret |-> content.pos]

\* Writer::add_sized, lines 170-174: the left operand of the subtraction is
\* evaluated, and awaited, first
add_sized(w, path, content) ==
  LET e == seek_end(content)
      p == stream_position(e.reader)
      size == e.ret - p.ret
  IN add(w, path, p.reader, size)

\* the loop of lines 182-194: blocks of BLOCK_SIZE bytes from the content's
\* cursor on, until a read gives nothing
RECURSIVE hash_blocks(_, _, _, _)
hash_blocks(content, global_state, blocks, size) ==
  LET block == SubSeq(content.data, content.pos + 1,
                      Min(Len(content.data), content.pos + BLOCK_SIZE))
  IN IF Len(block) = 0
       THEN [content |-> content, global_state |-> global_state,
             blocks |-> blocks, size |-> size]
       ELSE hash_blocks(Reader(content.data, content.pos + Len(block)),
                        update(global_state, block),
                        Append(blocks, digest(block)), size + Len(block))

\* add_sized_with_integrity with content.rewind() forgotten
add_sized_with_integrity_unrewound(w, path, content) ==
  LET h == hash_blocks(content, Sha256New, <<>>, 0)
      integrity == Integrity(finalize(h.global_state), BLOCK_SIZE, h.blocks)
  IN add_with_options(w, path, h.content, h.size, FALSE, <<integrity>>)

\* Writer::add_sized_with_integrity, lines 177-204
add_sized_with_integrity(w, path, content) ==
  LET h == hash_blocks(content, Sha256New, <<>>, 0)
      integrity == Integrity(finalize(h.global_state), BLOCK_SIZE, h.blocks)
      rewound == Reader(h.content.data, 0)
  IN add_with_options(w, path, rewound, h.size, FALSE, <<integrity>>)

\* io::copy from a Take<F>: the inner reader's bytes from its cursor on, at
\* most limit_ of them, fewer when the reader ends first
copy(t) ==
  SubSeq(t.inner.data, t.inner.pos + 1,
         Min(Len(t.inner.data), t.inner.pos + t.limit_))

\* padding with the alignment forgotten
padding_none(header_len) == 0

\* the padding of lines 113-116
padding(header_len) == IF header_len % 4 = 0 THEN 0 ELSE 4 - (header_len % 4)

\* Writer::write, lines 111-124: the four words, the header, the padding
envelope(header_bytes) ==
  LET header_len == Len(header_bytes)
      pad == padding(header_len)
  IN U32LE(4) \o U32LE(header_len + pad + 8) \o U32LE(header_len + pad + 4)
       \o U32LE(header_len) \o header_bytes \o Zeros(pad)

\* Writer::write: the bytes dest receives
write(w) ==
  envelope(to_vec(w.header)) \o Concat([i \in 1..Len(w.files) |-> copy(w.files[i])])

\* ReaderStream::new(file): the bytes of the Take in chunks of at most
\* ChunkCap, until it ends
RECURSIVE reader_stream(_)
reader_stream(bytes) ==
  IF bytes = <<>> THEN <<>>
  ELSE <<SubSeq(bytes, 1, Min(ChunkCap, Len(bytes)))>>
         \o reader_stream(SubSeq(bytes, ChunkCap + 1, Len(bytes)))

\* into_stream with the padding loop of lines 141-143 forgotten
into_stream_unpadded(w) ==
  LET header_bytes == to_vec(w.header)
      header_len == Len(header_bytes)
      pad == padding(header_len)
      header_meta == U32LE(4) \o U32LE(header_len + pad + 8)
                       \o U32LE(header_len + pad + 4) \o U32LE(header_len)
  IN <<header_meta, header_bytes>>
       \o Concat([i \in 1..Len(w.files) |-> reader_stream(copy(w.files[i]))])

\* Writer::into_stream, lines 134-159: the chunks of the stream, in order
into_stream(w) ==
  LET header_bytes == to_vec(w.header)
      header_len == Len(header_bytes)
      pad == padding(header_len)
      padded == header_bytes \o Zeros(pad)
      header_meta == U32LE(4) \o U32LE(header_len + pad + 8)
                       \o U32LE(header_len + pad + 4) \o U32LE(header_len)
  IN <<header_meta, padded>>
       \o Concat([i \in 1..Len(w.files) |-> reader_stream(copy(w.files[i]))])

-----------------------------------------------------------------------------
(* src/src/archive.rs: Archive *)

\* Archive::new with the payload base taken without the padding
new_unpadded(bytes) ==
  LET failed == [ok |-> FALSE, offset |-> 0, header |-> EmptyDirectory, pos |-> 0]
  IN IF Len(bytes) < 16 THEN failed
     ELSE LET header_size == ReadU32LE(bytes, 12)
          IN IF Len(bytes) < 16 + header_size THEN failed
             ELSE LET parsed == from_slice(SubSeq(bytes, 17, 16 + header_size))
                  IN IF ~parsed.ok THEN failed
                     ELSE [ok |-> TRUE, offset |-> header_size + 16,
                           header |-> parsed.dir, pos |-> 16 + header_size]

\* Archive::new over a reader holding bytes: seek to 12, read_u32_le,
\* read_exact, from_slice, the payload base
new(bytes) ==
  LET failed == [ok |-> FALSE, offset |-> 0, header |-> EmptyDirectory, pos |-> 0]
  IN IF Len(bytes) < 16 THEN failed
     ELSE LET header_size == ReadU32LE(bytes, 12)
          IN IF Len(bytes) < 16 + header_size THEN failed
             ELSE LET parsed == from_slice(SubSeq(bytes, 17, 16 + header_size))
                  IN IF ~parsed.ok THEN failed
                     ELSE [ok |-> TRUE,
                           offset |-> IF header_size % 4 = 0 THEN header_size + 16
                                      ELSE header_size + 16 + 4 - (header_size % 4),
                           header |-> parsed.dir,
                           pos |-> 16 + header_size]

\* File { offset, metadata, content: Take { limit_ } }; rdr names the cursor
\* of the reader the Take wraps
File(base, metadata, limit, rdr) ==
  [offset |-> base, metadata |-> metadata, limit_ |-> limit, rdr |-> rdr]

NoFile == File(0, FileMetadata(UnpackedPos, 0, FALSE, <<>>), 0, 0)

\* The match of Archive::read and of impl_read_owned!: what the path's
\* entry makes of the call
ReadOutcome(arc, path) ==
  LET s == directory_search_segments(arc.header, split_path(path))
  IN IF s.panic THEN [res |-> "panic", metadata |-> NoFile.metadata]
     ELSE IF s.found = <<>> THEN [res |-> "NotFound", metadata |-> NoFile.metadata]
     ELSE IF s.found[1].kind # "File"
       THEN [res |-> "NotAFile", metadata |-> NoFile.metadata]
     ELSE IF ~offset(s.found[1].metadata).ok
       THEN [res |-> "Unsupported", metadata |-> NoFile.metadata]
     ELSE [res |-> "Ok", metadata |-> s.found[1].metadata]

\* Archive::read with the seek forgotten: the cursor stays where it was
read_without_seek(arc, cur, path) ==
  LET o == ReadOutcome(arc, path)
  IN IF o.res = "Ok"
       THEN [res |-> "Ok", cur |-> cur,
             file |-> File(arc.offset, o.metadata, o.metadata.size, 1)]
       ELSE [res |-> o.res, cur |-> cur, file |-> NoFile]

\* Archive::read: on a file, seek self.reader to offset + metadata.offset()
\* and wrap it in a Take of metadata.size
read(arc, cur, path) ==
  LET o == ReadOutcome(arc, path)
  IN IF o.res = "Ok"
       THEN [res |-> "Ok", cur |-> arc.offset + offset(o.metadata).x,
             file |-> File(arc.offset, o.metadata, o.metadata.size, 1)]
       ELSE [res |-> o.res, cur |-> cur, file |-> NoFile]

\* a duplicate that shares the original's cursor (as File::try_clone would)
duplicate_shared(cs) == [cursors |-> cs, rdr |-> 1]

\* Duplicable::duplicate for Cursor (a clone) and for DuplicableFile (a
\* fresh handle): a reader with a cursor of its own
duplicate(cs) == [cursors |-> Append(cs, cs[1]), rdr |-> Len(cs) + 1]

\* impl_read_owned!: duplicate, then seek the duplicate
read_owned(arc, cs, path) ==
  LET o == ReadOutcome(arc, path)
      d == duplicate(cs)
  IN IF o.res = "Ok"
       THEN [res |-> "Ok",
             cursors |-> [d.cursors EXCEPT ![d.rdr] = arc.offset + offset(o.metadata).x],
             file |-> File(arc.offset, o.metadata, o.metadata.size, d.rdr)]
       ELSE [res |-> o.res, cursors |-> cs, file |-> NoFile]

-----------------------------------------------------------------------------
(* src/src/archive.rs: File *)

\* the reported position: metadata.size - content.limit()
Position(f) == f.metadata.size - f.limit_

\* a read that forgets the limit of the Take
Available_unlimited(f, cur, data, n) ==
  IF cur >= Len(data) THEN 0 ELSE Min(n, Len(data) - cur)

\* Take::poll_read through File::poll_read with a buffer of n bytes, of
\* which the backing reader fills k: nothing at limit_ 0, else at most
\* min(n, limit_) bytes from the cursor
Available(f, cur, data, n) ==
  IF f.limit_ = 0 \/ cur >= Len(data) THEN 0
  ELSE Min(Min(n, f.limit_), Len(data) - cur)

poll_read(f, cur, data, k) ==
  [got |-> SubSeq(data, cur + 1, cur + k),
   cur |-> cur + k,
   file |-> [f EXCEPT !.limit_ = f.limit_ - k]]

\* SeekFrom
SeekFrom(whence, k) == [whence |-> whence, k |-> k]

\* `-pos as u64`: with overflow checks the negation of i64::MIN panics
NegOverflows(pos, checks) == checks /\ pos = I64Min
NegAsU64(pos) == AsU64(WrappingNeg(pos))

\* start_seek with From-Start not clamped to the size
start_seek_unclamped(f, cur, position, checks) ==
  LET size == f.metadata.size
      current_relative_pos == size - f.limit_
      base == f.offset + offset(f.metadata).x
      pos == position.k
  IN IF ~offset(f.metadata).ok THEN [res |-> "Unsupported", cur |-> cur]
     ELSE IF position.whence = "Start"
       THEN [res |-> "Ok", cur |-> base + pos]
     ELSE IF position.whence = "Current"
       THEN IF NegOverflows(pos, checks) THEN [res |-> "panic", cur |-> cur]
            ELSE IF NegAsU64(pos) > current_relative_pos
              THEN [res |-> "InvalidInput", cur |-> cur]
            ELSE [res |-> "Ok", cur |-> cur + Min(pos, size - current_relative_pos)]
     ELSE IF pos > 0 THEN [res |-> "Ok", cur |-> base + size]
     ELSE IF NegOverflows(pos, checks) THEN [res |-> "panic", cur |-> cur]
     ELSE IF NegAsU64(pos) > size THEN [res |-> "InvalidInput", cur |-> cur]
     ELSE [res |-> "Ok", cur |-> base + size - NegAsU64(pos)]

\* File::start_seek, lines 238-257.  The backing reader's start_seek moves
\* its cursor: to n for Start(n), by d for Current(d).  The u64
\* subtractions of lines 239 and 247 wrap, or panic under overflow checks.
start_seek(f, cur, position, checks) ==
  LET size == f.metadata.size
      current_relative_pos == (size - f.limit_) % U64Modulus
      base == f.offset + offset(f.metadata).x
      pos == position.k
  IN IF checks /\ f.limit_ > size THEN [res |-> "panic", cur |-> cur]
     ELSE IF ~offset(f.metadata).ok THEN [res |-> "Unsupported", cur |-> cur]
     ELSE IF position.whence = "Start"
       THEN [res |-> "Ok", cur |-> base + Min(size, pos)]
     ELSE IF position.whence = "Current"
       THEN IF NegOverflows(pos, checks) THEN [res |-> "panic", cur |-> cur]
            ELSE IF NegAsU64(pos) > current_relative_pos
              THEN [res |-> "InvalidInput", cur |-> cur]
            ELSE [res |-> "Ok",
                  cur |-> cur + Min(pos, AsI64((size - current_relative_pos)
                                                 % U64Modulus))]
     ELSE IF pos > 0 THEN [res |-> "Ok", cur |-> base + size]
     ELSE IF NegOverflows(pos, checks) THEN [res |-> "panic", cur |-> cur]
     ELSE IF NegAsU64(pos) > size THEN [res |-> "InvalidInput", cur |-> cur]
     ELSE [res |-> "Ok", cur |-> base + size - NegAsU64(pos)]

\* poll_complete with set_limit forgotten
poll_complete_stale(f, cur) ==
  [pos |-> cur - f.offset - offset(f.metadata).x, file |-> f,
   overflow |-> FALSE]

\* File::poll_complete, lines 259-270: the backing reader reports its
\* cursor; the limit becomes size minus the relative position, a u64
\* subtraction (line 264) that overflows when the cursor is past the end
\* of the file
poll_complete(f, cur) ==
  LET new_relative_pos == cur - f.offset - offset(f.metadata).x
      new_limit == (f.metadata.size - new_relative_pos) % U64Modulus
  IN [pos |-> new_relative_pos % U64Modulus,
      file |-> [f EXCEPT !.limit_ = new_limit],
      overflow |-> new_relative_pos < 0 \/ new_relative_pos > f.metadata.size]

\* seek that starts without completing the seek started earlier
seek_without_completion(f, cur, position, checks) ==
  LET started == start_seek(f, cur, position, checks)
      done == poll_complete(f, started.cur)
  IN IF started.res = "Ok"
       THEN [res |-> "Ok", cur |-> started.cur, file |-> done.file, pos |-> done.pos]
       ELSE [res |-> started.res, cur |-> cur, file |-> f, pos |-> Position(f)]

\* AsyncSeekExt::seek: poll_complete (a seek started earlier completes),
\* start_seek, poll_complete
seek(f, cur, position, checks) ==
  LET first == poll_complete(f, cur)
      started == start_seek(first.file, cur, position, checks)
      done == poll_complete(first.file, started.cur)
  IN IF checks /\ first.overflow
       THEN [res |-> "panic", cur |-> cur, file |-> f, pos |-> Position(f)]
     ELSE IF started.res = "Ok"
       THEN [res |-> "Ok", cur |-> started.cur, file |-> done.file, pos |-> done.pos]
       ELSE [res |-> started.res, cur |-> cur, file |-> first.file,
             pos |-> Position(first.file)]

\* (&mut self.content).take(block_size).read_to_end(&mut block): reads
\* until block_size bytes are in, or the Take or the reader is at its end
read_block(f, cur, data, block_size) ==
  poll_read(f, cur, data, Available(f, cur, data, block_size))

\* a rewind that leaves the sub-stream where it is
rewind_nowhere(f, cur) ==
  [res |-> "Ok", cur |-> cur, file |-> f, pos |-> Position(f)]

\* self.rewind(): seek(SeekFrom::Start(0))
rewind(f, cur) == seek(f, cur, SeekFrom("Start", 0), FALSE)

\* the loop of File::check_integrity, lines 202-214
RECURSIVE check_blocks(_, _, _, _, _, _, _)
check_blocks(f, cur, data, block_size, blocks, global_state, size) ==
  IF blocks = <<>>
    THEN [ok |-> TRUE, file |-> f, cur |-> cur, global_state |-> global_state,
          size |-> size]
    ELSE LET r == read_block(f, cur, data, block_size)
         IN IF Len(r.got) = 0 \/ digest(r.got) # Head(blocks)
              THEN [ok |-> FALSE, file |-> r.file, cur |-> r.cur,
                    global_state |-> global_state, size |-> size]
              ELSE check_blocks(r.file, r.cur, data, block_size, Tail(blocks),
                                update(global_state, r.got), size + Len(r.got))

\* check_integrity with the checks after the loop (line 215) forgotten
check_integrity_blocks_only(f, cur, data) ==
  IF f.metadata.integrity = <<>> THEN [ret |-> TRUE, file |-> f, cur |-> cur]
  ELSE LET integrity == f.metadata.integrity[1]
           b == check_blocks(f, cur, data, integrity.block_size, integrity.blocks,
                             Sha256New, 0)
           r == seek(b.file, b.cur, SeekFrom("Start", 0), FALSE)
       IN [ret |-> b.ok, file |-> r.file, cur |-> r.cur]

\* File::check_integrity, lines 195-223
check_integrity(f, cur, data) ==
  IF f.metadata.integrity = <<>> THEN [ret |-> TRUE, file |-> f, cur |-> cur]
  ELSE LET integrity == f.metadata.integrity[1]
           b == check_blocks(f, cur, data, integrity.block_size, integrity.blocks,
                             Sha256New, 0)
           good == /\ b.ok
                   /\ f.metadata.size = b.size
                   /\ finalize(b.global_state) = integrity.hash
           r == rewind(b.file, b.cur)
       IN [ret |-> good, file |-> r.file, cur |-> r.cur]

-----------------------------------------------------------------------------
(* Read to the end: the caller's loop of poll_read with a MaxBuf buffer,   *)
(* each call filled as far as the backing reader can                        *)

RECURSIVE read_to_end(_, _, _)
read_to_end(f, cur, data) ==
  LET n == Available(f, cur, data, MaxBuf)
  IN IF n = 0 THEN [got |-> <<>>, cur |-> cur, file |-> f]
     ELSE LET r == poll_read(f, cur, data, n)
              rest == read_to_end(r.file, r.cur, data)
          IN [got |-> r.got \o rest.got, cur |-> rest.cur, file |-> rest.file]

-----------------------------------------------------------------------------
(* The inputs of the model *)

PathA == <<97>>                            \* a
PathDB == <<100, 47, 98>>                  \* d/b
PathUpB == <<46, 46, 47, 98>>              \* ../b
PathAX == <<97, 47, 120>>                  \* a/x
PathEmpty == <<>>                          \* the empty path
PathRoot == <<47>>                         \* /
PathD == <<100>>                           \* d
PathDU == <<100, 47, 117>>                 \* d/u
PathT == <<116>>                           \* t
PathX == <<120>>                           \* x
PathDotDB == <<46, 47, 100, 47, 47, 98>>   \* ./d//b

\* the paths handed to add, and read back
AddPaths == {PathA, PathDB, PathUpB, PathAX, PathEmpty}
\* the paths handed to add_empty_folder
FolderPaths == {PathD, PathAX}

\* the bytes of the n-th content, len of them: no two contents share a byte
Content(n, len) == [i \in 1..len |-> 16 * n + i]

\* the sizes declared for a content of len bytes: one less, exact, one more
DeclaredSizes(len) == {s \in {len - 1, len, len + 1} : s >= 0}

\* An archive some other tool wrote: a (3 bytes at 0), d/b (2 bytes at 3),
\* d/u (unpacked), the empty directory e, and t (3 bytes declared at 5, of
\* which the payload holds one)
SampleHeader ==
  [files |->
     (<<97>> :> FileEntry(FileMetadata(OffsetPos(0), 3, FALSE, <<>>)))
     @@ (<<100>> :> DirectoryEntry(
           [files |-> (<<98>> :> FileEntry(FileMetadata(OffsetPos(3), 2, FALSE, <<>>)))
                      @@ (<<117>> :> FileEntry(FileMetadata(UnpackedPos, 1, FALSE, <<>>)))]))
     @@ (<<101>> :> DirectoryEntry(EmptyDirectory))
     @@ (<<116>> :> FileEntry(FileMetadata(OffsetPos(5), 3, FALSE, <<>>)))]

SamplePayload == <<1, 2, 3, 4, 5, 6>>
SampleImage == envelope(to_vec(SampleHeader)) \o SamplePayload

\* the paths handed to read on the sample archive
ReadPaths == {PathA, PathDB, PathDotDB, PathT, PathDU, PathD, PathAX, PathX,
              PathEmpty, PathRoot}
\* the paths handed to read_owned and read_owned_local
OwnedPaths == {PathA, PathDB, PathDU, PathD}

\* SeekFrom values: Start takes a u64, Current and End an i64
SeekPositions ==
  {SeekFrom("Start", k) : k \in (0..MaxSeek) \cup {U64Modulus - 1}}
    \cup {SeekFrom(w, k) : w \in {"Current", "End"},
                           k \in (-MaxSeek..MaxSeek) \cup {I64Min, I64Max}}

\* What an operation was and what it returned: id is the sub-stream (0 the
\* borrowed one), n the buffer length, ret the position a seek returned, p0
\* and cur0 the sub-stream's position and its reader's cursor before it.
NoEvent ==
  [op |-> "none", id |-> 0, path |-> <<>>, position |-> SeekFrom("Start", 0),
   n |-> 0, res |-> "Ok", ret |-> 0, p0 |-> 0, cur0 |-> 0, got |-> <<>>]

Event(fields) == fields @@ NoEvent

NoStreams == [borrowed |-> <<>>, owned |-> <<>>]

\* the sub-stream a reader- or seek-action addresses
Stream(id) == IF id = 0 THEN streams.borrowed[1] ELSE streams.owned[id]
StreamIds ==
  (IF streams.borrowed = <<>> THEN {} ELSE {0}) \cup (1..Len(streams.owned))

WithStream(id, f) ==
  IF id = 0 THEN [streams EXCEPT !.borrowed = <<f>>]
  ELSE [streams EXCEPT !.owned[id] = f]

-----------------------------------------------------------------------------
(* src/src/extract.rs: the directory tree under the destination path *)

\* disk maps a path below the destination (the sequence of its components,
\* <<>> the destination itself) to what is there.  The names of the model's
\* headers are single components, so Path::join appends one.
Dir == [kind |-> "dir", bytes |-> <<>>]
RegularFile(bytes) == [kind |-> "file", bytes |-> bytes]
NoDisk == <<>>
NoWalk == [stack |-> <<>>, log |-> <<>>]

join(path, name) == Append(path, name)
Parent(p) == SubSeq(p, 1, Len(p) - 1)

\* tokio::fs::create_dir: the parent must be a directory, the path free
create_dir(d, p) ==
  IF Parent(p) \notin DOMAIN d THEN [res |-> "NotFound", disk |-> d]
  ELSE IF d[Parent(p)].kind # "dir" THEN [res |-> "NotADirectory", disk |-> d]
  ELSE IF p \in DOMAIN d THEN [res |-> "AlreadyExists", disk |-> d]
  ELSE [res |-> "Ok", disk |-> (p :> Dir) @@ d]

\* tokio::fs::File::create: creates the file, or truncates the one there
create(d, p) ==
  IF Parent(p) \notin DOMAIN d THEN [res |-> "NotFound", disk |-> d]
  ELSE IF d[Parent(p)].kind # "dir" THEN [res |-> "NotADirectory", disk |-> d]
  ELSE IF p \in DOMAIN d /\ d[p].kind = "dir"
    THEN [res |-> "IsADirectory", disk |-> d]
  ELSE [res |-> "Ok", disk |-> (p :> RegularFile(<<>>)) @@ d]

\* extract_file, lines 36-47: seek the reader to offset + file.offset()?,
\* create the file, io::copy from reader.take(file.size)
extract_file(d, data, cur, off, name, file, path) ==
  LET to == off + offset(file).x
      created == create(d, join(path, name))
      bytes == copy(take(Reader(data, to), file.size))
  IN IF ~offset(file).ok THEN [res |-> "Unsupported", cur |-> cur, disk |-> d]
     ELSE IF created.res # "Ok"
       THEN [res |-> created.res, cur |-> to, disk |-> d]
     ELSE [res |-> "Ok", cur |-> to + Len(bytes),
           disk |-> (join(path, name) :> RegularFile(bytes)) @@ d]

\* a directory of the header the walk is in: the names it has yet to visit
Frame(path, dir) == [path |-> path, dir |-> dir, todo |-> DOMAIN dir.files]

\* the loops of impl_extract_dir! and Archive::extract return when the
\* iterator is exhausted
RECURSIVE Return(_)
Return(stack) ==
  IF stack = <<>> \/ stack[Len(stack)].todo # {} THEN stack
  ELSE Return(SubSeq(stack, 1, Len(stack) - 1))

\* the names of the entry taken off the innermost directory
Visit(stack, name) ==
  [stack EXCEPT ![Len(stack)].todo = @ \ {name}]

-----------------------------------------------------------------------------
(* Packing and reading back: Writer, then Archive over what it wrote *)

Init ==
  /\ header = EmptyDirectory
  /\ file_offset = 0
  /\ files = <<>>
  /\ calls = <<>>
  /\ dest = <<>>
  /\ phase = "building"
  /\ archive = [offset |-> 0, header |-> EmptyDirectory]
  /\ image = <<>>
  /\ cursors = <<0>>
  /\ streams = NoStreams
  /\ last = NoEvent
  /\ disk = NoDisk
  /\ walk = NoWalk

WriterUnchanged == UNCHANGED <<header, file_offset, files, calls, dest, disk, walk>>
ReaderUnchanged == UNCHANGED <<archive, image, cursors, streams, disk, walk>>

\* writer.add(path, content, size), content a fresh reader over len bytes
Add(path, len, size) ==
  /\ phase = "building"
  /\ Len(calls) < MaxAdds
  /\ LET data == Content(Len(calls) + 1, len)
         r == add(Writer(header, file_offset, files), path, Reader(data, 0), size)
     IN /\ header' = r.w.header
        /\ file_offset' = r.w.file_offset
        /\ files' = r.w.files
        /\ phase' = IF r.ok THEN "building" ELSE "panicked"
        /\ calls' = IF r.ok
                      THEN Append(calls, [path |-> path, data |-> data, size |-> size])
                      ELSE calls
        /\ last' = Event([op |-> "add", path |-> path,
                          res |-> IF r.ok THEN "Ok" ELSE "panic"])
  /\ UNCHANGED dest
  /\ ReaderUnchanged

\* writer.add_empty_folder(path)
AddEmptyFolder(path) ==
  /\ phase = "building"
  /\ LET r == add_empty_folder(Writer(header, file_offset, files), path)
     IN /\ header' = r.w.header
        /\ file_offset' = r.w.file_offset
        /\ files' = r.w.files
        /\ phase' = IF r.ok THEN "building" ELSE "panicked"
        /\ last' = Event([op |-> "add_empty_folder", path |-> path,
                          res |-> IF r.ok THEN "Ok" ELSE "panic"])
  /\ UNCHANGED <<calls, dest>>
  /\ ReaderUnchanged

\* writer.write(&mut dest), dest an empty Vec
Write ==
  /\ phase = "building"
  /\ dest' = write(Writer(header, file_offset, files))
  /\ phase' = "written"
  /\ last' = Event([op |-> "write"])
  /\ UNCHANGED <<header, file_offset, files, calls>>
  /\ ReaderUnchanged

\* Archive::new(Cursor::new(dest))
New ==
  /\ phase = "written"
  /\ LET r == new(dest)
     IN /\ phase' = IF r.ok THEN "opened" ELSE "failed"
        /\ archive' = [offset |-> r.offset, header |-> r.header]
        /\ image' = dest
        /\ cursors' = <<r.pos>>
        /\ last' = Event([op |-> "new", res |-> IF r.ok THEN "Ok" ELSE "Err"])
  /\ UNCHANGED streams
  /\ WriterUnchanged

\* archive.read(path), the File read to its end and dropped
ReadToEnd(path) ==
  /\ phase = "opened"
  /\ LET r == read(archive, cursors[1], path)
         e == read_to_end(r.file, r.cur, image)
     IN /\ cursors' = <<IF r.res = "Ok" THEN e.cur ELSE cursors[1]>>
        /\ last' = Event([op |-> "read_to_end", path |-> path, res |-> r.res,
                          cur0 |-> cursors[1],
                          got |-> IF r.res = "Ok" THEN e.got ELSE <<>>])
  /\ UNCHANGED <<phase, archive, image, streams>>
  /\ WriterUnchanged

\* writer.into_stream(), the stream drained: got is the chunks end to end,
\* n their number
IntoStream ==
  /\ phase = "building"
  /\ phase' = "streamed"
  /\ LET chunks == into_stream(Writer(header, file_offset, files))
     IN last' = Event([op |-> "into_stream", n |-> Len(chunks),
                       got |-> Concat(chunks)])
  /\ UNCHANGED <<header, file_offset, files, calls, dest>>
  /\ ReaderUnchanged

Next ==
  \/ \E path \in AddPaths, len \in 0..MaxLen :
       \E size \in DeclaredSizes(len) : Add(path, len, size)
  \/ \E path \in FolderPaths : AddEmptyFolder(path)
  \/ Write
  \/ IntoStream
  \/ New
  \/ \E path \in AddPaths : ReadToEnd(path)

Spec == Init /\ [][Next]_vars

-----------------------------------------------------------------------------
(* Sub-streams of an opened archive *)

\* Archive::new(Cursor::new(SampleImage)) has returned
InitFile ==
  /\ header = EmptyDirectory
  /\ file_offset = 0
  /\ files = <<>>
  /\ calls = <<>>
  /\ dest = <<>>
  /\ phase = "opened"
  /\ LET r == new(SampleImage)
     IN /\ r.ok
        /\ archive = [offset |-> r.offset, header |-> r.header]
        /\ cursors = <<r.pos>>
  /\ image = SampleImage
  /\ streams = NoStreams
  /\ last = NoEvent
  /\ disk = NoDisk
  /\ walk = NoWalk

\* archive.read(path): the File borrows the archive's reader
Read(path) ==
  /\ phase = "opened"
  /\ streams.borrowed = <<>>
  /\ LET r == read(archive, cursors[1], path)
     IN /\ cursors' = [cursors EXCEPT ![1] = r.cur]
        /\ streams' = [streams EXCEPT
                         !.borrowed = IF r.res = "Ok" THEN <<r.file>> ELSE <<>>]
        /\ phase' = IF r.res = "panic" THEN "panicked" ELSE phase
        /\ last' = Event([op |-> "read", path |-> path, res |-> r.res,
                          cur0 |-> cursors[1]])
  /\ UNCHANGED <<archive, image>>
  /\ WriterUnchanged

\* archive.read_owned(path) and archive.read_owned_local(path): one macro
ReadOwnedAs(op, path) ==
  /\ phase = "opened"
  /\ streams.borrowed = <<>>
  /\ Len(streams.owned) < MaxOwned
  /\ LET r == read_owned(archive, cursors, path)
     IN /\ cursors' = r.cursors
        /\ streams' = [streams EXCEPT
                         !.owned = IF r.res = "Ok" THEN Append(@, r.file) ELSE @]
        /\ phase' = IF r.res = "panic" THEN "panicked" ELSE phase
        /\ last' = Event([op |-> op, path |-> path, res |-> r.res,
                          id |-> IF r.res = "Ok" THEN Len(streams.owned) + 1 ELSE 0])
  /\ UNCHANGED <<archive, image>>
  /\ WriterUnchanged

ReadOwned(path) == ReadOwnedAs("read_owned", path)
ReadOwnedLocal(path) == ReadOwnedAs("read_owned_local", path)

\* the borrowed File goes out of scope
DropFile ==
  /\ phase = "opened"
  /\ streams.borrowed # <<>>
  /\ streams' = [streams EXCEPT !.borrowed = <<>>]
  /\ last' = Event([op |-> "drop"])
  /\ UNCHANGED <<phase, archive, image, cursors>>
  /\ WriterUnchanged

\* archive.reader_mut().seek(SeekFrom::Start(to))
ReaderMutSeek(to) ==
  /\ phase = "opened"
  /\ streams.borrowed = <<>>
  /\ cursors' = [cursors EXCEPT ![1] = to]
  /\ last' = Event([op |-> "reader_mut", cur0 |-> cursors[1]])
  /\ UNCHANGED <<phase, archive, image, streams>>
  /\ WriterUnchanged

\* one poll_read of sub-stream id with an n-byte buffer; the backing reader
\* fills k of the bytes it may (a reader may return fewer than asked)
PollRead(id, n, k) ==
  /\ phase = "opened"
  /\ id \in StreamIds
  /\ LET f == Stream(id)
         cur == cursors[f.rdr]
         avail == Available(f, cur, image, n)
     IN /\ k \in (IF avail = 0 THEN {0} ELSE 1..avail)
        /\ LET r == poll_read(f, cur, image, k)
           IN /\ cursors' = [cursors EXCEPT ![f.rdr] = r.cur]
              /\ streams' = WithStream(id, r.file)
              /\ last' = Event([op |-> "poll_read", id |-> id, n |-> n,
                                p0 |-> Position(f), cur0 |-> cur, got |-> r.got])
  /\ UNCHANGED <<phase, archive, image>>
  /\ WriterUnchanged

\* sub-stream id's seek(position) run to completion, in a build with or
\* without overflow checks
Seek(id, position, checks) ==
  /\ phase = "opened"
  /\ id \in StreamIds
  /\ LET f == Stream(id)
         cur == cursors[f.rdr]
         r == seek(f, cur, position, checks)
     IN /\ cursors' = [cursors EXCEPT ![f.rdr] = r.cur]
        /\ streams' = WithStream(id, r.file)
        /\ phase' = IF r.res = "panic" THEN "panicked" ELSE phase
        /\ last' = Event([op |-> "seek", id |-> id, position |-> position,
                          res |-> r.res, ret |-> r.pos, p0 |-> Position(f),
                          cur0 |-> cur])
  /\ UNCHANGED <<archive, image>>
  /\ WriterUnchanged

\* where reader_mut is seeked to: the start, past the end, inside the payload
ReaderSeeks == {0, archive.offset + 4, Len(image) + 1}

\* the builds a seek is run in: overflow checks matter to a negation only
Builds(position) == IF position.k = I64Min THEN BOOLEAN ELSE {FALSE}

NextFile ==
  \/ \E path \in ReadPaths : Read(path)
  \/ DropFile
  \/ \E to \in ReaderSeeks : ReaderMutSeek(to)
  \/ \E n \in 1..MaxBuf, k \in 0..MaxBuf : PollRead(0, n, k)
  \/ \E position \in SeekPositions :
       \E checks \in Builds(position) : Seek(0, position, checks)

SpecFile == InitFile /\ [][NextFile]_vars

-----------------------------------------------------------------------------
(* The three read flavours *)

NextRead ==
  \/ \E path \in ReadPaths : Read(path)
  \/ DropFile
  \/ \E path \in ReadPaths : ReadOwned(path)
  \/ \E path \in ReadPaths : ReadOwnedLocal(path)

SpecRead == InitFile /\ [][NextRead]_vars

-----------------------------------------------------------------------------
(* Duplicated sub-streams used side by side *)

\* the seeks of the duplicates: the short ones of each kind
OwnedSeeks == {p \in SeekPositions : p.k \in -1..2}

NextOwned ==
  \/ \E path \in OwnedPaths : ReadOwned(path)
  \/ \E path \in OwnedPaths : ReadOwnedLocal(path)
  \/ \E id \in 1..MaxOwned, n \in 1..MaxBuf, k \in 0..MaxBuf : PollRead(id, n, k)
  \/ \E id \in 1..MaxOwned, position \in OwnedSeeks : Seek(id, position, FALSE)

SpecOwned == InitFile /\ [][NextOwned]_vars

-----------------------------------------------------------------------------
(* Sized adds: the writer measures (and hashes) its contents itself *)

\* the paths handed to add_sized and add_sized_with_integrity
SizedPaths == {PathA, PathDB}

\* writer.add_sized(path, content), content a Cursor over len bytes that the
\* caller has read start bytes of
AddSized(path, len, start) ==
  /\ phase = "building"
  /\ Len(calls) < MaxAdds
  /\ start <= len
  /\ LET data == Content(Len(calls) + 1, len)
         r == add_sized(Writer(header, file_offset, files), path, Reader(data, start))
     IN /\ header' = r.w.header
        /\ file_offset' = r.w.file_offset
        /\ files' = r.w.files
        /\ phase' = IF r.ok THEN "building" ELSE "panicked"
        /\ calls' = IF r.ok
                      THEN Append(calls, [path |-> path, data |-> data,
                                          size |-> r.w.file_offset - file_offset,
                                          start |-> start, hashed |-> FALSE])
                      ELSE calls
        /\ last' = Event([op |-> "add_sized", path |-> path, n |-> len,
                          p0 |-> start, cur0 |-> file_offset,
                          res |-> IF r.ok THEN "Ok" ELSE "panic"])
  /\ UNCHANGED dest
  /\ ReaderUnchanged

\* writer.add_sized_with_integrity(path, content)
AddSizedWithIntegrity(path, len, start) ==
  /\ phase = "building"
  /\ Len(calls) < MaxAdds
  /\ start <= len
  /\ LET data == Content(Len(calls) + 1, len)
         r == add_sized_with_integrity(Writer(header, file_offset, files), path,
                                       Reader(data, start))
     IN /\ header' = r.w.header
        /\ file_offset' = r.w.file_offset
        /\ files' = r.w.files
        /\ phase' = IF r.ok THEN "building" ELSE "panicked"
        /\ calls' = IF r.ok
                      THEN Append(calls, [path |-> path, data |-> data,
                                          size |-> r.w.file_offset - file_offset,
                                          start |-> start, hashed |-> TRUE])
                      ELSE calls
        /\ last' = Event([op |-> "add_sized_with_integrity", path |-> path,
                          n |-> len, p0 |-> start, cur0 |-> file_offset,
                          res |-> IF r.ok THEN "Ok" ELSE "panic"])
  /\ UNCHANGED dest
  /\ ReaderUnchanged

\* the borrowed sub-stream's check_integrity(); ret is 1 for Ok(true) and 0
\* for Ok(false)
CheckIntegrity ==
  /\ phase = "opened"
  /\ streams.borrowed # <<>>
  /\ LET f == Stream(0)
         r == check_integrity(f, cursors[f.rdr], image)
     IN /\ cursors' = [cursors EXCEPT ![f.rdr] = r.cur]
        /\ streams' = WithStream(0, r.file)
        /\ last' = Event([op |-> "check_integrity", path |-> last.path,
                          res |-> "Ok", ret |-> IF r.ret THEN 1 ELSE 0,
                          p0 |-> Position(f), cur0 |-> cursors[f.rdr]])
  /\ UNCHANGED <<phase, archive, image>>
  /\ WriterUnchanged

\* where a caller may have left a content's cursor
Starts == 0..1

NextSized ==
  \/ \E path \in SizedPaths, len \in 0..MaxSrc, start \in Starts :
       AddSized(path, len, start)
  \/ \E path \in SizedPaths, len \in 0..MaxSrc, start \in Starts :
       AddSizedWithIntegrity(path, len, start)
  \/ Write
  \/ New
  \/ \E path \in SizedPaths : Read(path)
  \/ \E n \in 1..MaxBuf, k \in 0..MaxBuf : PollRead(0, n, k)
  \/ CheckIntegrity
  \/ DropFile

SpecSized == Init /\ [][NextSized]_vars

-----------------------------------------------------------------------------
(* Integrity records against payloads that do, and do not, match them *)

\* the record add_sized_with_integrity makes of a content
RecordOf(data) ==
  LET h == hash_blocks(Reader(data, 0), Sha256New, <<>>, 0)
  IN Integrity(finalize(h.global_state), BLOCK_SIZE, h.blocks)

\* a hash with its last byte changed
Altered(hash) == [hash EXCEPT ![Len(hash)] = (@ + 1) % 256]

\* the payload bytes in front of the file and behind it
Lead == <<7>>
Neighbour == <<9, 8>>

\* What may have happened to a file of len bytes and its record: nothing;
\* the payload with byte at flipped, with byte at removed (the neighbour
\* moving up), or cut off after at bytes; the size declared as at; block
\* hash at altered; the whole-file hash altered; and, for the empty file,
\* the record that lists one block, the hash of no bytes.
Corruptions(len) ==
  {[kind |-> "none", at |-> 0], [kind |-> "hash", at |-> 0]}
    \cup {[kind |-> k, at |-> i] : k \in {"flip", "remove"}, i \in 1..len}
    \cup {[kind |-> "truncate", at |-> i] : i \in 0..(len - 1)}
    \cup {[kind |-> "size", at |-> n] : n \in (0..(len + BLOCK_SIZE)) \ {len}}
    \cup {[kind |-> "block", at |-> j] : j \in 1..Len(RecordOf(Content(1, len)).blocks)}
    \cup (IF len = 0 THEN {[kind |-> "empty_block", at |-> 0]} ELSE {})

CorruptRecord(data, c) ==
  LET r == RecordOf(data)
  IN IF c.kind = "hash" THEN [r EXCEPT !.hash = Altered(@)]
     ELSE IF c.kind = "block" THEN [r EXCEPT !.blocks[c.at] = Altered(@)]
     ELSE IF c.kind = "empty_block" THEN [r EXCEPT !.blocks = <<digest(<<>>)>>]
     ELSE r

CorruptPayload(data, c) ==
  IF c.kind = "flip" THEN [data EXCEPT ![c.at] = (@ + 1) % 256] \o Neighbour
  ELSE IF c.kind = "remove"
    THEN SubSeq(data, 1, c.at - 1) \o SubSeq(data, c.at + 1, Len(data)) \o Neighbour
  ELSE IF c.kind = "truncate" THEN SubSeq(data, 1, c.at)
  ELSE data \o Neighbour

CorruptImage(data, c) ==
  LET size == IF c.kind = "size" THEN c.at ELSE Len(data)
      meta == FileMetadata(OffsetPos(Len(Lead)), size, FALSE,
                           <<CorruptRecord(data, c)>>)
  IN envelope(to_vec([files |-> (PathA :> FileEntry(meta))]))
       \o Lead \o CorruptPayload(data, c)

\* Archive::new over such an archive has returned
InitCorrupt ==
  /\ header = EmptyDirectory
  /\ file_offset = 0
  /\ files = <<>>
  /\ dest = <<>>
  /\ phase = "opened"
  /\ \E len \in 0..MaxSrc :
       \E c \in Corruptions(len) :
         LET data == Content(1, len)
             r == new(CorruptImage(data, c))
         IN /\ r.ok
            /\ image = CorruptImage(data, c)
            /\ archive = [offset |-> r.offset, header |-> r.header]
            /\ cursors = <<r.pos>>
            /\ calls = <<[path |-> PathA, data |-> data, kind |-> c.kind,
                          at |-> c.at]>>
  /\ streams = NoStreams
  /\ last = NoEvent
  /\ disk = NoDisk
  /\ walk = NoWalk

NextCorrupt ==
  \/ Read(PathA)
  \/ \E n \in 1..MaxBuf, k \in 0..MaxBuf : PollRead(0, n, k)
  \/ CheckIntegrity
  \/ DropFile

SpecCorrupt == InitCorrupt /\ [][NextCorrupt]_vars

-----------------------------------------------------------------------------
(* split_path on its own *)

\* the characters of the strings: '/', '.', and two letters
PathAlphabet == {Slash, Dot, 97, 98}

PathExample1 == <<47, 97, 47, 47, 46, 47, 98, 47, 46, 46, 47, 99>>  \* /a//./b/../c
PathExample2 == <<46, 46>>                                          \* ..
PathExample3 == <<97, 47, 46, 47>>                                  \* a/./

PathStrings ==
  UNION {[1..n -> PathAlphabet] : n \in 0..MaxPath}
    \cup {PathExample1, PathExample2, PathExample3}

\* split_path(s), once
SplitPath(s) ==
  /\ last.op = "none"
  /\ last' = Event([op |-> "split_path", path |-> s, got |-> split_path(s)])
  /\ UNCHANGED <<phase, archive, image, cursors, streams>>
  /\ WriterUnchanged

NextPath == \E s \in PathStrings : SplitPath(s)

SpecPath == Init /\ [][NextPath]_vars

-----------------------------------------------------------------------------
(* Properties *)

\* Path resolution as the header model defines it: descend from the root,
\* each step through a directory holding the segment; <<>> when absent
RECURSIVE Resolve(_, _)
Resolve(entry, segments) ==
  IF segments = <<>> THEN <<entry>>
  ELSE IF entry.kind # "Directory" \/ Head(segments) \notin DOMAIN entry.dir.files
    THEN <<>>
  ELSE Resolve(entry.dir.files[Head(segments)], Tail(segments))

\* the entry path names in a directory tree
Resolved(root, path) == Resolve(DirectoryEntry(root), split_path(path))

\* the absolute position of a sub-stream's first byte
Window(f) == f.offset + f.metadata.pos.x

RECURSIVE SumSizes(_, _)
SumSizes(cs, n) == IF n = 0 THEN 0 ELSE SumSizes(cs, n - 1) + cs[n].size

\* every add declared the size its content has
ExactSizes == \A i \in 1..Len(calls) : calls[i].size = Len(calls[i].data)

\* C1: after add(p_i, b_i, |b_i|) calls that all returned, write and
\* Archive::new, read(p_i) read to its end gives exactly b_i, whichever
\* paths were read before it.
C1_RoundTrip ==
  (phase = "opened" /\ last.op = "read_to_end" /\ ExactSizes) =>
    \A i \in 1..Len(calls) :
      calls[i].path = last.path => (last.res = "Ok" /\ last.got = calls[i].data)

\* the first of several files is read back after the cursor was left
\* behind it by a read of a later one
C1_Witness ==
  /\ phase = "opened" /\ last.op = "read_to_end" /\ ExactSizes
  /\ Len(calls) >= 2
  /\ calls[1].path = last.path
  /\ Len(last.got) >= 2
  /\ last.cur0 > archive.offset + Len(calls[1].data)

\* C2: while the adds succeed, the header's offset of the j-th file is the
\* sum of the sizes declared before it, file_offset is the sum of all of
\* them, and files holds the payloads in insertion order; add_empty_folder
\* (which adds no call) moves neither.
C2_WriterOffsets ==
  phase = "building" =>
    /\ file_offset = SumSizes(calls, Len(calls))
    /\ Len(files) = Len(calls)
    /\ \A j \in 1..Len(calls) :
         LET e == Resolved(header, calls[j].path)
         IN /\ files[j] = take(Reader(calls[j].data, 0), calls[j].size)
            /\ e # <<>>
            /\ e[1].kind = "File"
            /\ e[1].metadata.pos = OffsetPos(SumSizes(calls, j - 1))
            /\ e[1].metadata.size = calls[j].size

\* two files of sizes above 0 are in, and a folder was added after them
C2_Witness ==
  /\ phase = "building"
  /\ Len(calls) >= 2
  /\ calls[1].size > 0 /\ calls[2].size > 0
  /\ last.op = "add_empty_folder" /\ last.res = "Ok"

\* C3: for every sub-stream, with p = size - limit: 0 <= p <= size and the
\* backing cursor is at base + offset + p; the position a completed seek
\* reports is that p.
C3_SubStreamInvariant ==
  /\ \A id \in StreamIds :
       LET f == Stream(id)
       IN /\ 0 <= Position(f) /\ Position(f) <= f.metadata.size
          /\ cursors[f.rdr] = Window(f) + Position(f)
  /\ (last.op = "seek" /\ last.res = "Ok") =>
       LET f == Stream(last.id)
       IN /\ 0 <= last.ret /\ last.ret <= f.metadata.size
          /\ f.limit_ = f.metadata.size - last.ret
          /\ cursors[f.rdr] = Window(f) + last.ret

\* a seek has moved the sub-stream to the middle of its file
C3_Witness ==
  /\ last.op = "seek" /\ last.res = "Ok"
  /\ last.ret > 0 /\ last.ret < Stream(last.id).metadata.size
  /\ last.ret # last.p0

\* C4: a read at position p returns only the archive's bytes from
\* base + offset + p on, none at or past base + offset + size, and none at
\* all when p = size.
C4_ReadsStayInWindow ==
  last.op = "poll_read" =>
    LET f == Stream(last.id)
    IN /\ Len(last.got) <= f.metadata.size - last.p0
       /\ \A i \in 1..Len(last.got) : last.got[i] = image[Window(f) + last.p0 + i]
       /\ (last.p0 = f.metadata.size => last.got = <<>>)

\* a read that asked for more than the file had left, a neighbour behind it
C4_Witness ==
  /\ last.op = "poll_read"
  /\ last.got # <<>>
  /\ last.n > Len(last.got)
  /\ last.p0 > 0
  /\ last.p0 + Len(last.got) = Stream(last.id).metadata.size
  /\ Window(Stream(last.id)) + Stream(last.id).metadata.size < Len(image)

\* the seek landed at relative position p
Lands(p) ==
  LET f == Stream(last.id)
  IN /\ last.res = "Ok"
     /\ last.ret = p
     /\ Position(f) = p
     /\ cursors[f.rdr] = Window(f) + p

\* C5: From-Current(k) at position p: for k >= 0 the seek succeeds at
\* min(p + k, size); for k < 0 with -k <= p it succeeds at p + k.
C5_SeekFromCurrent ==
  (last.op = "seek" /\ last.position.whence = "Current") =>
    LET k == last.position.k
    IN /\ k >= 0 => Lands(Min(last.p0 + k, Stream(last.id).metadata.size))
       /\ (k < 0 /\ -k <= last.p0) => Lands(last.p0 + k)

\* C6: From-Start(k) lands at min(k, S); From-End(k) with k > 0 at S, with
\* k <= 0 and -k <= S at S + k; the next read starts there, and yields
\* nothing at S.
C6_SeekFromStartAndEnd ==
  last.op = "seek" =>
    LET f == Stream(last.id)
        S == f.metadata.size
        k == last.position.k
    IN /\ last.position.whence = "Start" => Lands(Min(k, S))
       /\ (last.position.whence = "End" /\ k > 0) => Lands(S)
       /\ (last.position.whence = "End" /\ k <= 0 /\ -k <= S) => Lands(S + k)
       /\ (last.position.whence # "Current" /\ last.res = "Ok" /\ last.ret = S)
            => Available(f, cursors[f.rdr], image, MaxBuf) = 0

\* From-Start past the end of a file that was not at its end
C6_Witness ==
  /\ last.op = "seek" /\ last.res = "Ok"
  /\ last.position.whence = "Start"
  /\ last.position.k > Stream(last.id).metadata.size
  /\ last.p0 < Stream(last.id).metadata.size
  /\ last.ret = Stream(last.id).metadata.size

\* C7: From-End(k) with k <= 0 and -k > size, and From-Current(k) with
\* k < 0 and -k > p, fail with InvalidInput and leave the position, the
\* limit and the backing cursor as they were.
C7_RejectedSeeks ==
  LET f == Stream(last.id)
      k == last.position.k
  IN (/\ last.op = "seek"
      /\ \/ last.position.whence = "End" /\ k <= 0 /\ -k > f.metadata.size
         \/ last.position.whence = "Current" /\ k < 0 /\ -k > last.p0)
       => /\ last.res = "InvalidInput"
          /\ Position(f) = last.p0
          /\ cursors[f.rdr] = last.cur0

\* what a read of path must come to, by the entry the path resolves to
Expected(path) ==
  LET e == Resolved(archive.header, path)
  IN IF e = <<>> THEN "NotFound"
     ELSE IF e[1].kind = "Directory" THEN "NotAFile"
     ELSE IF e[1].metadata.pos.tag = "Unpacked" THEN "Unsupported"
     ELSE "Ok"

\* C8: read, read_owned and read_owned_local alike give NotFound for a path
\* resolving to no entry, "not a file" for a directory, the "unpacked"
\* error for an unpacked file, and a sub-stream limited to the size only
\* for a file with an offset.
C8_ReadOutcomes ==
  last.op \in {"read", "read_owned", "read_owned_local"} =>
    /\ last.res = Expected(last.path)
    /\ IF last.res = "Ok"
         THEN LET f == IF last.op = "read" THEN streams.borrowed[1]
                       ELSE streams.owned[last.id]
              IN /\ f.metadata = Resolved(archive.header, last.path)[1].metadata
                 /\ f.limit_ = f.metadata.size
         ELSE last.op = "read" => streams.borrowed = <<>>

\* C9: wherever earlier sub-streams or reader_mut left the cursor, a read
\* that succeeds returns a sub-stream at position 0, limit size(path), the
\* backing cursor at base + offset(path).
C9_ReadRestoresCursor ==
  (last.op = "read" /\ last.res = "Ok") =>
    /\ streams.borrowed # <<>>
    /\ LET f == streams.borrowed[1]
           m == Resolved(archive.header, last.path)[1].metadata
       IN /\ Position(f) = 0
          /\ f.limit_ = m.size
          /\ cursors[1] = archive.offset + m.pos.x

\* a read of a file in front of where the cursor had been left
C9_Witness ==
  /\ last.op = "read" /\ last.res = "Ok"
  /\ last.cur0 > cursors[1]
  /\ last.cur0 > archive.offset
  /\ streams.borrowed # <<>>

\* an operation on sub-stream i leaves the other duplicates and the
\* archive's own reader alone
OthersUntouched ==
  last'.op \in {"poll_read", "seek"} =>
    /\ cursors'[1] = cursors[1]
    /\ \A j \in 1..Len(streams.owned) :
         j # last'.id =>
           /\ streams'.owned[j] = streams.owned[j]
           /\ cursors'[streams.owned[j].rdr] = cursors[streams.owned[j].rdr]

\* each read gives the bytes of the sub-stream's own file at its position
OwnBytes ==
  last.op = "poll_read" =>
    LET f == Stream(last.id)
    IN /\ Len(last.got) <= f.metadata.size - last.p0
       /\ \A i \in 1..Len(last.got) : last.got[i] = image[Window(f) + last.p0 + i]

\* C10: sub-streams from read_owned/read_owned_local, used in any
\* interleaving, each read the bytes of their own file, and an operation
\* on one changes neither another's cursor or limit nor the archive's
\* reader.
C10_DuplicableIndependence == []OwnBytes /\ [][OthersUntouched]_vars

\* two duplicates over different files, both past their start, the first
\* read again after the second moved
C10_Witness ==
  /\ Len(streams.owned) >= 2
  /\ streams.owned[1].metadata # streams.owned[2].metadata
  /\ Position(streams.owned[2]) > 0
  /\ last.op = "poll_read" /\ last.id = 1 /\ last.p0 > 0 /\ last.got # <<>>

\* C11: add_sized(path, content) registers a file whose size is content's
\* end position minus the position content had at the call, and advances
\* the writer's next offset by that amount.
C11_AddSized ==
  (last.op = "add_sized" /\ last.res = "Ok") =>
    LET e == Resolved(header, last.path)
    IN /\ e # <<>>
       /\ e[1].kind = "File"
       /\ e[1].metadata.size = last.n - last.p0
       /\ file_offset = last.cur0 + (last.n - last.p0)

\* the adds whose file the borrowed sub-stream is over
CallsOfStream ==
  {i \in 1..Len(calls) :
     Resolved(archive.header, calls[i].path) = <<FileEntry(Stream(0).metadata)>>}

\* C13: for every source added with add_sized_with_integrity from position
\* 0 and then written, check_integrity on the freshly read sub-stream of
\* that file returns true.
C13_ProducedIntegrity ==
  (last.op = "check_integrity" /\ last.p0 = 0) =>
    \A i \in CallsOfStream :
      (calls[i].hashed /\ calls[i].start = 0) => last.ret = 1

\* the second file of an archive, of more than one block, checks true
C13_Witness ==
  /\ last.op = "check_integrity" /\ last.p0 = 0 /\ last.ret = 1
  /\ 2 \in CallsOfStream
  /\ calls[2].hashed /\ calls[2].start = 0
  /\ Len(calls[2].data) > BLOCK_SIZE
  /\ Len(Stream(0).metadata.integrity[1].blocks) >= 2
  /\ Stream(0).metadata.pos.x > 0

\* the archive differs from the one the record was made for
Corrupted == calls[1].kind \notin {"none", "empty_block"}

\* C14: for a file with an integrity record, check_integrity on a fresh
\* sub-stream returns Ok(false) whenever a payload byte differs from the
\* hashed content, the available payload is shorter than size, the declared
\* size differs from the bytes the blocks cover, a block hash is altered,
\* or the whole-file hash is altered.
C14_CorruptionDetected ==
  (last.op = "check_integrity" /\ last.p0 = 0 /\ Corrupted) =>
    (last.res = "Ok" /\ last.ret = 0)

\* a byte of the second block was flipped, and the check said false
C14_Witness ==
  /\ last.op = "check_integrity" /\ last.p0 = 0
  /\ calls[1].kind = "flip" /\ calls[1].at > BLOCK_SIZE
  /\ last.ret = 0

\* C15: for a file of size 0 whose record has the right whole-file hash,
\* check_integrity returns true both with an empty block list and with one
\* block, the hash of the empty string.
C15_EmptyFileIntegrity ==
  (/\ last.op = "check_integrity" /\ last.p0 = 0
   /\ calls[1].data = <<>>
   /\ calls[1].kind \in {"none", "empty_block"})
    => last.ret = 1

\* C16: check_integrity on a file that has an integrity record leaves the
\* sub-stream at position 0, its limit at size and the backing cursor at
\* base + offset, whether it returns true or false and whichever check
\* failed.
C16_CheckRewinds ==
  (last.op = "check_integrity" /\ Stream(0).metadata.integrity # <<>>) =>
    LET f == Stream(0)
    IN /\ last.res = "Ok"
       /\ Position(f) = 0
       /\ f.limit_ = f.metadata.size
       /\ cursors[f.rdr] = Window(f)

\* the check read the whole file, failed at the whole-file hash, and the
\* sub-stream is back at its start
C16_Witness ==
  /\ last.op = "check_integrity" /\ last.p0 = 0 /\ last.ret = 0
  /\ calls[1].kind = "hash"
  /\ Len(calls[1].data) > BLOCK_SIZE
  /\ Position(Stream(0)) = 0

\* the first size bytes of each content, in insertion order (for sizes
\* no content falls short of)
DeclaredPayload ==
  Concat([i \in 1..Len(calls) |-> SubSeq(calls[i].data, 1, calls[i].size)])

\* C12: write copies exactly the declared size bytes of each payload in
\* insertion order: excess bytes of a source are not written, and a source
\* that yields fewer bytes than declared makes write fail.
C12_WriteExactSizes ==
  last.op = "write" =>
    IF \E i \in 1..Len(calls) : calls[i].size > Len(calls[i].data)
      THEN last.res # "Ok"
      ELSE /\ last.res = "Ok"
           /\ dest = envelope(to_vec(header)) \o DeclaredPayload

\* the little-endian word at 0-based offset at
WordAt(bytes, at) ==
  bytes[at + 1] + 256 * (bytes[at + 2] + 256 * (bytes[at + 3] + 256 * bytes[at + 4]))

\* C17: for a header of JSON length H, write emits the words 4, H+P+8,
\* H+P+4, H, the H header bytes and P zero bytes, P = (4 - H mod 4) mod 4;
\* the payload starts at 16+H+P, a multiple of 4, and Archive::new takes
\* exactly that as the payload base, from the word at offset 12.
C17_Envelope ==
  LET H == Len(to_vec(header))
      P == (4 - (H % 4)) % 4
  IN /\ phase \in {"written", "opened"} =>
          /\ Len(dest) >= 16 + H + P
          /\ WordAt(dest, 0) = 4
          /\ WordAt(dest, 4) = H + P + 8
          /\ WordAt(dest, 8) = H + P + 4
          /\ WordAt(dest, 12) = H
          /\ SubSeq(dest, 17, 16 + H) = to_vec(header)
          /\ \A i \in (17 + H)..(16 + H + P) : dest[i] = 0
          /\ SubSeq(dest, 17 + H + P, Len(dest))
               = Concat([i \in 1..Len(files) |-> copy(files[i])])
          /\ (16 + H + P) % 4 = 0
     /\ phase # "failed"
     /\ phase = "opened" => archive.offset = 16 + WordAt(image, 12) + P

\* an archive with padding and a payload behind it was opened
C17_Witness ==
  /\ phase = "opened" /\ last.op = "new"
  /\ Len(to_vec(header)) % 4 = 3
  /\ Len(dest) > archive.offset
  /\ dest[archive.offset] = 0

\* the entry at the first n segments
Prefix(dir, segments, n) == Resolve(DirectoryEntry(dir), SubSeq(segments, 1, n))

\* a file sits at one of the first n segments
FileAmong(dir, segments, n) ==
  \E k \in 1..n : Prefix(dir, segments, k) # <<>>
                    /\ Prefix(dir, segments, k)[1].kind = "File"

\* one call of add or add_empty_folder against the header it found
NoSilentOverwrite ==
  LET segs == split_path(last'.path)
  IN /\ (/\ last'.op = "add"
         /\ segs # <<>>
         /\ \/ Prefix(header, segs, Len(segs)) # <<>>
            \/ FileAmong(header, segs, Len(segs) - 1))
          => last'.res = "panic"
     /\ (last'.op = "add_empty_folder" /\ FileAmong(header, segs, Len(segs)))
          => last'.res = "panic"
     /\ (last'.op \in {"add", "add_empty_folder"} /\ last'.res = "Ok")
          => \A j \in 1..Len(calls) :
               /\ Resolved(header, calls[j].path) # <<>>
               /\ Resolved(header', calls[j].path) = Resolved(header, calls[j].path)

\* C18: add panics when the terminal name is already in its parent (file
\* or directory) and when an intermediate segment names a file;
\* add_empty_folder panics when any segment names a file; after calls that
\* all returned, every file added before is at its path with its offset
\* and size.
C18_NoSilentOverwrite == [][NoSilentOverwrite]_vars

\* an add was refused at a name a file already has
C18_Witness ==
  /\ last.op = "add" /\ last.res = "panic"
  /\ Len(calls) >= 1
  /\ \E i \in 1..Len(calls) : split_path(calls[i].path) = split_path(last.path)

\* C19: the chunks of into_stream, end to end, are byte for byte what write
\* emits for the same writer.
C19_StreamingEquivalence ==
  last.op = "into_stream" =>
    last.got = write(Writer(header, file_offset, files))

\* two payloads streamed, one cut to a declared size below its length, in
\* more chunks than payloads
C19_Witness ==
  /\ last.op = "into_stream"
  /\ Len(calls) >= 2
  /\ \E i \in 1..Len(calls) :
       calls[i].size > 0 /\ calls[i].size < Len(calls[i].data)
  /\ last.n > 2 + Len(calls)
  /\ Len(to_vec(header)) % 4 # 0

\* where the separators of str are, with the two ends
Separators(str) ==
  <<0>> \o SelectSeq([i \in 1..Len(str) |-> i], LAMBDA i : str[i] = Slash)
    \o <<Len(str) + 1>>

\* the tokens between them
Tokens(str) ==
  [k \in 1..(Len(Separators(str)) - 1) |->
     SubSeq(str, Separators(str)[k] + 1, Separators(str)[k + 1] - 1)]

\* the reference normalisation, by the last token: an empty or "." token
\* adds nothing, ".." takes the last kept segment away if there is one,
\* any other token is kept
RECURSIVE Normalised(_)
Normalised(tokens) ==
  IF tokens = <<>> THEN <<>>
  ELSE LET t == tokens[Len(tokens)]
           before == Normalised(SubSeq(tokens, 1, Len(tokens) - 1))
       IN IF t = <<>> \/ t = <<Dot>> THEN before
          ELSE IF t = <<Dot, Dot>>
            THEN SubSeq(before, 1, Len(before) - 1)
          ELSE Append(before, t)

\* C20: split_path equals the reference normalisation for every string; its
\* result holds no empty, "." or ".." segment (so no path resolves above
\* the root), and the three examples give [a, c], [] and [a].
C20_SplitPath ==
  last.op = "split_path" =>
    /\ last.got = Normalised(Tokens(last.path))
    /\ \A i \in 1..Len(last.got) :
         /\ last.got[i] \notin {<<>>, <<Dot>>, <<Dot, Dot>>}
         /\ \A j \in 1..Len(last.got[i]) : last.got[i][j] # Slash
    /\ last.path = PathExample1 => last.got = << <<97>>, <<99>> >>
    /\ last.path = PathExample2 => last.got = <<>>
    /\ last.path = PathExample3 => last.got = << <<97>> >>

\* the first example was split
C20_Witness ==
  /\ last.op = "split_path"
  /\ last.path = PathExample1
  /\ last.got = << <<97>>, <<99>> >>

-----------------------------------------------------------------------------
(* Abandoned seeks on the borrowed sub-stream *)

\* the seek arguments of this specification: the ordinary ones
CancelSeeks == {p \in SeekPositions : p.k \in -MaxSeek..MaxSeek}

\* a seek(position) future dropped after its start_seek: poll_complete (a
\* seek started earlier completes), start_seek, and no poll_complete.  The
\* backing reader has moved, the limit of the Take has not.
seek_dropped(f, cur, position, checks) ==
  LET first == poll_complete(f, cur)
      started == start_seek(first.file, cur, position, checks)
  IN IF checks /\ first.overflow
       THEN [res |-> "panic", cur |-> cur, file |-> f, pos |-> Position(f)]
       ELSE [res |-> started.res, cur |-> started.cur, file |-> first.file,
             pos |-> first.pos]

\* sub-stream id's seek(position) is started and abandoned.  calls keeps the
\* seek abandoned last, ret the position before the start_seek.
StartSeek(id, position, checks) ==
  /\ phase = "opened"
  /\ id \in StreamIds
  /\ LET f == Stream(id)
         cur == cursors[f.rdr]
         r == seek_dropped(f, cur, position, checks)
     IN /\ cursors' = [cursors EXCEPT ![f.rdr] = r.cur]
        /\ streams' = WithStream(id, r.file)
        /\ phase' = IF r.res = "panic" THEN "panicked" ELSE phase
        /\ calls' = IF r.res = "Ok" THEN <<position>> ELSE calls
        /\ last' = Event([op |-> "start_seek", id |-> id, position |-> position,
                          res |-> r.res, ret |-> r.pos, p0 |-> Position(f),
                          cur0 |-> cur])
  /\ UNCHANGED <<archive, image, header, file_offset, files, dest, disk, walk>>

NextCancel ==
  \/ \E path \in {PathA, PathDB} : Read(path)
  \/ DropFile
  \/ \E n \in 1..MaxBuf, k \in 0..MaxBuf : PollRead(0, n, k)
  \/ \E position \in CancelSeeks, checks \in BOOLEAN : StartSeek(0, position, checks)
  \/ \E position \in CancelSeeks, checks \in BOOLEAN : Seek(0, position, checks)

SpecCancel == InitFile /\ [][NextCancel]_vars

-----------------------------------------------------------------------------
(* Seek cancellation *)

\* C21: a seek that is started and abandoned leaves the remaining limit as
\* it was (as the completion of an earlier seek left it), and every seek
\* completed afterwards leaves 0 <= p <= size, remaining = size - p and the
\* backing cursor at base + offset + p; a seek reissued while the cursor is
\* still inside the file does complete, unless the sub-stream rejects its
\* argument.
C21_CancelRecovery ==
  /\ (last.op = "start_seek" /\ last.res = "Ok")
       => LET f == Stream(0)
          IN /\ f.limit_ = (f.metadata.size - last.ret) % U64Modulus
             /\ last.cur0 = Window(f) + last.p0
                  => f.limit_ = f.metadata.size - last.p0
  /\ (last.op = "seek" /\ calls # <<>> /\ last.res = "Ok")
       => LET f == Stream(0)
              p == last.ret
          IN /\ 0 <= p /\ p <= f.metadata.size
             /\ f.limit_ = f.metadata.size - p
             /\ cursors[f.rdr] = Window(f) + p
  /\ (last.op = "seek" /\ calls # <<>>
        /\ last.cur0 \in Window(Stream(0))..(Window(Stream(0)) + Stream(0).metadata.size))
       => last.res \in {"Ok", "InvalidInput"}

\* a seek completed on a sub-stream whose limit an abandoned seek had left
\* behind its cursor
C21_Witness ==
  /\ last.op = "seek" /\ last.res = "Ok" /\ calls # <<>>
  /\ last.cur0 # Window(Stream(0)) + last.p0
  /\ last.position.whence = "Current"

-----------------------------------------------------------------------------
(* Paths that name the root *)

\* C23: read, read_owned and read_owned_local return for every path string;
\* a path whose normalised segment list is empty names the root directory
\* and gets the "not a file" error, no sub-stream and no panic.
C23_RootIsNotAFile ==
  (/\ last.op \in {"read", "read_owned", "read_owned_local"}
   /\ split_path(last.path) = <<>>)
    => /\ phase # "panicked"
       /\ last.res = "NotAFile"
       /\ last.op = "read" => streams.borrowed = <<>>

-----------------------------------------------------------------------------
(* add_sized_with_integrity from any position of the source *)

\* the digests of the blocks of BLOCK_SIZE bytes that bytes falls into
RECURSIVE BlockDigests(_)
BlockDigests(bytes) ==
  IF bytes = <<>> THEN <<>>
  ELSE <<digest(SubSeq(bytes, 1, Min(Len(bytes), BLOCK_SIZE)))>>
         \o BlockDigests(SubSeq(bytes, Min(Len(bytes), BLOCK_SIZE) + 1, Len(bytes)))

\* C24: wherever the source's cursor is when add_sized_with_integrity is
\* called, the source is queued rewound to position 0, and the size and the
\* integrity record of the entry are those of the bytes write emits for it.
C24_RecordDescribesEmitted ==
  (last.op = "add_sized_with_integrity" /\ last.res = "Ok") =>
    LET t == files[Len(files)]
        m == Resolved(header, last.path)[1].metadata
        emitted == copy(t)
    IN /\ t.inner.pos = 0
       /\ Len(emitted) = m.size
       /\ m.integrity # <<>>
       /\ m.integrity[1].hash = digest(emitted)
       /\ m.integrity[1].blocks = BlockDigests(emitted)

-----------------------------------------------------------------------------
(* check_integrity from any position of the sub-stream *)

\* C25: whatever reads came before it, check_integrity returns true on an
\* uncorrupted file whose integrity record is correct, and on a file with
\* no integrity record it returns true and leaves the position and the
\* backing cursor where they were.
C25_CheckAtAnyPosition ==
  last.op = "check_integrity" =>
    \A i \in CallsOfStream :
      /\ (calls[i].hashed /\ calls[i].start = 0)
           => (last.res = "Ok" /\ last.ret = 1)
      /\ ~calls[i].hashed
           => /\ last.res = "Ok" /\ last.ret = 1
              /\ Position(Stream(0)) = last.p0
              /\ cursors[Stream(0).rdr] = last.cur0

-----------------------------------------------------------------------------
(* Extraction *)

NameA == <<97>>
NameD == <<100>>

\* An archive whose payload holds every file: a, d/b and the empty e
IntactHeader ==
  [files |->
     (NameA :> FileEntry(FileMetadata(OffsetPos(0), 3, FALSE, <<>>)))
     @@ (NameD :> DirectoryEntry(
           [files |-> (<<98>> :> FileEntry(FileMetadata(OffsetPos(3), 2, FALSE, <<>>)))]))
     @@ (<<101>> :> DirectoryEntry(EmptyDirectory))]

\* the headers of the archives extracted, each over SamplePayload
ExtractHeaders == {IntactHeader, SampleHeader}

\* what is at the destination beforehand: an empty directory, nothing at
\* all, a directory d already there, a directory where the file a goes
ExtractDisks ==
  { (<<>> :> Dir),
    NoDisk,
    (<<>> :> Dir) @@ (<<NameD>> :> Dir),
    (<<>> :> Dir) @@ (<<NameA>> :> Dir) }

InitExtract ==
  /\ header = EmptyDirectory
  /\ file_offset = 0
  /\ files = <<>>
  /\ calls = <<>>
  /\ dest = <<>>
  /\ phase = "opened"
  /\ \E h \in ExtractHeaders :
       LET bytes == envelope(to_vec(h)) \o SamplePayload
           r == new(bytes)
       IN /\ r.ok
          /\ image = bytes
          /\ archive = [offset |-> r.offset, header |-> r.header]
          /\ cursors = <<r.pos>>
  /\ streams = NoStreams
  /\ last = NoEvent
  /\ disk \in ExtractDisks
  /\ walk = NoWalk

\* archive.extract(path) and extract_local, archive.rs lines 155-175, up to
\* the first entry: the walk starts in the root of the header
Extract ==
  /\ phase = "opened"
  /\ streams.borrowed = <<>>
  /\ LET stack == Return(<<Frame(<<>>, archive.header)>>)
     IN /\ walk' = [stack |-> stack, log |-> <<>>]
        /\ phase' = IF stack = <<>> THEN "extracted" ELSE "extracting"
  /\ last' = Event([op |-> "extract", cur0 |-> cursors[1]])
  /\ UNCHANGED <<archive, image, cursors, streams, disk>>
  /\ UNCHANGED <<header, file_offset, files, calls, dest>>

\* extract_entry on a directory: impl_extract_dir!, lines 55-68, up to its
\* first entry.  The HashMap hands out the names in any order.
ExtractDir(name) ==
  /\ phase = "extracting"
  /\ LET top == walk.stack[Len(walk.stack)]
         entry == top.dir.files[name]
         new_dir_path == join(top.path, name)
         r == create_dir(disk, new_dir_path)
     IN /\ name \in top.todo
        /\ entry.kind = "Directory"
        /\ disk' = r.disk
        /\ walk' =
             [stack |-> IF r.res = "Ok"
                          THEN Return(Append(Visit(walk.stack, name),
                                             Frame(new_dir_path, entry.dir)))
                          ELSE walk.stack,
              log |-> Append(walk.log, [op |-> "create_dir", path |-> new_dir_path,
                                        res |-> r.res])]
        /\ phase' = IF r.res # "Ok" THEN "failed"
                    ELSE IF walk'.stack = <<>> THEN "extracted" ELSE "extracting"
        /\ last' = Event([op |-> "extract_dir", path |-> new_dir_path,
                          res |-> r.res, cur0 |-> cursors[1]])
  /\ UNCHANGED <<archive, image, cursors, streams>>
  /\ UNCHANGED <<header, file_offset, files, calls, dest>>

\* extract_entry on a file: extract_file
ExtractFile(name) ==
  /\ phase = "extracting"
  /\ LET top == walk.stack[Len(walk.stack)]
         entry == top.dir.files[name]
         r == extract_file(disk, image, cursors[1], archive.offset, name,
                           entry.metadata, top.path)
     IN /\ name \in top.todo
        /\ entry.kind = "File"
        /\ disk' = r.disk
        /\ cursors' = [cursors EXCEPT ![1] = r.cur]
        /\ walk' =
             [stack |-> IF r.res = "Ok" THEN Return(Visit(walk.stack, name))
                        ELSE walk.stack,
              log |-> Append(walk.log, [op |-> "extract_file",
                                        path |-> join(top.path, name),
                                        res |-> r.res])]
        /\ phase' = IF r.res # "Ok" THEN "failed"
                    ELSE IF walk'.stack = <<>> THEN "extracted" ELSE "extracting"
        /\ last' = Event([op |-> "extract_file", path |-> join(top.path, name),
                          res |-> r.res, cur0 |-> cursors[1],
                          n |-> entry.metadata.size,
                          p0 |-> offset(entry.metadata).x])
  /\ UNCHANGED <<archive, image, streams>>
  /\ UNCHANGED <<header, file_offset, files, calls, dest>>

\* the names a HashMap of the model's headers holds
Names == {<<97>>, <<98>>, <<100>>, <<101>>, <<116>>, <<117>>}

NextExtract ==
  \/ \E to \in ReaderSeeks : ReaderMutSeek(to)
  \/ Extract
  \/ \E name \in Names : ExtractDir(name)
  \/ \E name \in Names : ExtractFile(name)

SpecExtract == InitExtract /\ [][NextExtract]_vars

\* C22: in extract every directory is created before anything beneath it,
\* each file is written from base + offset of that file, wherever the cursor
\* was, and holds exactly size bytes, and the first step that fails ends the
\* walk with its error.
C22_ExtractionOrder ==
  /\ \A i \in 1..Len(walk.log) :
       /\ (walk.log[i].res = "Ok" /\ Len(walk.log[i].path) > 1)
            => \E j \in 1..(i - 1) :
                 walk.log[j] = [op |-> "create_dir", res |-> "Ok",
                                path |-> Parent(walk.log[i].path)]
       /\ i < Len(walk.log) => walk.log[i].res = "Ok"
  /\ (last.op = "extract_file" /\ last.res = "Ok")
       => LET bytes == disk[last.path].bytes
              start == archive.offset + last.p0
          IN /\ disk[last.path].kind = "file"
             /\ Len(bytes) = last.n
             /\ \A i \in 1..Len(bytes) : bytes[i] = image[start + i]
             /\ cursors[1] = start + last.n
  /\ phase = "failed"
       <=> (walk.log # <<>> /\ walk.log[Len(walk.log)].res # "Ok")
  /\ phase = "failed" => last.res = walk.log[Len(walk.log)].res

=============================================================================
